---------------------------- MODULE Spec2Model ----------------------------
(***************************************************************************)
(* Vector similarity search layer of AgenticBeerathon:                     *)
(* CocktailVectorSearch (src/src/utils/vector_search_api.py) and the HTTP  *)
(* endpoints in front of it (src/api/cocktail_api.py).                     *)
(*                                                                         *)
(* The stored SQL functions the engine calls are defined in                *)
(* database/vector_functions.sql; the operators named Sql... below follow  *)
(* sections 4.1-4.4 of the specification.                                  *)
(*                                                                         *)
(* Spec is the engine on a reachable store, over every store of the        *)
(* bounded shape; SpecFaults adds the failures of the store and of the     *)
(* embedder, and the HTTP endpoint.  A fault names the first call of the   *)
(* handler that raises.  The row a LIMIT 1 without ORDER BY yields is an   *)
(* input of the call (first).                                              *)
(*                                                                         *)
(* SpecScan is Spec restricted to the three searches that take a           *)
(* threshold.  SpecPreferences is the preference search over stores whose  *)
(* ABV and tags vary, SpecOverlap the ingredient searches over stores      *)
(* whose ingredient lists vary.  SpecEntry is the entry paths: the HTTP    *)
(* endpoints and the command line (src/tools/cocktail_search_cli.py),      *)
(* with maxResults 0 among the inputs.                                     *)
(*                                                                         *)
(* The loader (src/src/utils/cocktail_data_embedder.py, main) writes the    *)
(* tables of database through one connection; the engine reads the         *)
(* committed rows (cocktails, ingredients).  SpecLoader runs it over       *)
(* directories with defective files, SpecReload over the same directory    *)
(* twice with the same or with changed content, SpecTexts over records     *)
(* whose texts are missing, empty or blank.  SpecDetails and SpecServe run *)
(* the engine while the loader runs; SpecConcurrent runs two callers of    *)
(* find_similar_cocktails_by_flavor statement by statement on a fixed      *)
(* store.  SpecSubstring is SpecOverlap on stores with an ingredient whose *)
(* name contains two requested names.  SpecAgent is ProductionLLMAgent     *)
(* (src/production_llm_system.py): get_recommendation and its retry loop.  *)
(* In the specifications of the engine alone the loader, the connection    *)
(* table and the agent stay idle.                                          *)
(*                                                                         *)
(* Scores are integers in percent (90 stands for 0.90).  Text is a         *)
(* sequence of one-character strings.  A nullable column is a set with at  *)
(* most one element ({} is NULL / None).  An absent embedding is <<>>.     *)
(***************************************************************************)
EXTENDS Integers, Sequences, FiniteSets, TLC

VARIABLES cocktails, ingredients, last, database, loader, calls, agent

vars == <<cocktails, ingredients, last, database, loader, calls, agent>>

---------------------------------------------------------------------------
(* Bounds of the model *)

NumCocktails == 3

NumIngredients == 3

MaxResultsBound == 2

MaxFiles == 2

MaxRuns == 2

MaxCalls == 2

---------------------------------------------------------------------------
(* Value sets the inputs and the store are drawn from *)

CocktailIds == 1..NumCocktails

NameSet == { <<"a">>, <<"a", "b">> }

FlavorSet == { <<>>, <<1, 0>>, <<4, 3>> }

AnchorSet == { <<"a">>, <<"B">>, <<"_">> }

ThresholdSet == { 0, 90, 100 }

MaxResultsSet == 1..MaxResultsBound

TextSet == { <<>>, <<" ">>, <<"x">>, <<"y">> }

IngredientListSet == { <<>>, << <<"G">> >>, << <<"g">>, <<"l">> >> }

AbvRangeSet == { <<0, 50>>, <<15, 25>>, <<20, 10>> }

TagListSet == { <<>>, <<"tropical">>, <<"Tropical">>, <<"citrus", "smoky">> }

ExcludedSet == { <<>>, <<"Classic">> }

OverlapThresholdSet == { 0, 50 }

ProfileSet ==
    { [ abv |-> {20}, tags |-> { "tropical", "citrus" } ],
      [ abv |-> {22}, tags |-> { "tropical" } ],
      [ abv |-> {30}, tags |-> { "classic" } ],
      [ abv |-> {},   tags |-> { "citrus" } ],
      [ abv |-> {15}, tags |-> { "Tropical", "Classic" } ],
      [ abv |-> {25}, tags |-> { "citrus", "smoky" } ] }

IngredientRefSet == { <<>>, <<1>>, <<1, 2>>, <<2, 3>>, <<1, 2, 3>>, <<2, 3, 9>> }

SodaNameSet == { <<"s">>, <<"g", "s">> }

EntryMaxResultsSet == 0..MaxResultsBound

CommandLines ==
    [ command : { "similar", "recommend" }, cocktail : AnchorSet,
      max_results : EntryMaxResultsSet ]
    \cup [ command : { "flavor" }, description : TextSet,
           max_results : EntryMaxResultsSet ]
    \cup [ command : { "ingredients" }, ingredients : IngredientListSet \ { <<>> },
           max_results : EntryMaxResultsSet ]
    \cup [ command : { "details" }, cocktail : AnchorSet ]
    \cup [ command : { "help" } ]

IngredientIds == 1..NumIngredients

AbvOf(id) == IF id = 1 THEN {} ELSE IF id % 2 = 0 THEN {20} ELSE {0}

TagsOf(id) ==
    IF id % 3 = 1 THEN { "tropical", "citrus" }
    ELSE IF id % 3 = 2 THEN { "tropical" } ELSE { "classic" }

IngredientsOf(id) ==
    IF id % 3 = 1 THEN <<1, 2>> ELSE IF id % 3 = 2 THEN <<2, 3, 9>> ELSE <<>>

TypicalFlavor(id) == IF id % 2 = 1 THEN <<1, 0>> ELSE <<4, 3>>

IngredientNameOf(id) ==
    IF id % 3 = 1 THEN <<"g">> ELSE IF id % 3 = 2 THEN <<"l">> ELSE <<"s">>

IngredientFlavorOf(id) ==
    IF id % 3 = 1 THEN <<4, 3>> ELSE IF id % 3 = 2 THEN <<1, 0>> ELSE <<>>

---------------------------------------------------------------------------
(* Text matching: PostgreSQL ILIKE *)

Lower(c) ==
    IF c = "A" THEN "a" ELSE IF c = "B" THEN "b" ELSE IF c = "G" THEN "g" ELSE c

LowerText(s) == [ i \in DOMAIN s |-> Lower(s[i]) ]

Contains(s, sub) ==
    \E i \in 0..(Len(s) - Len(sub)) :
        LowerText(SubSeq(s, i + 1, i + Len(sub))) = LowerText(sub)

LowerTag(t) ==
    IF t = "Tropical" THEN "tropical" ELSE IF t = "Classic" THEN "classic" ELSE t

RECURSIVE ILike(_, _)
ILike(s, p) ==
    IF p = <<>> THEN s = <<>>
    ELSE IF Head(p) = "%"
         THEN \E k \in 0..Len(s) : ILike(SubSeq(s, k + 1, Len(s)), Tail(p))
         ELSE /\ s # <<>>
              /\ \/ Head(p) = "_"
                 \/ Lower(Head(p)) = Lower(Head(s))
              /\ ILike(Tail(s), Tail(p))

NamePattern(cocktail_name) == <<"%">> \o cocktail_name \o <<"%">>

---------------------------------------------------------------------------
(* Sequences *)

Take(s, n) == SubSeq(s, 1, IF n < Len(s) THEN n ELSE Len(s))

Range(s) == { s[i] : i \in DOMAIN s }

RECURSIVE RankBy(_, _)
RankBy(S, score) ==
    IF S = {} THEN <<>>
    ELSE LET best == CHOOSE x \in S : \A y \in S :
                         \/ score[x] > score[y]
                         \/ score[x] = score[y] /\ x <= y
         IN  <<best>> \o RankBy(S \ {best}, score)

---------------------------------------------------------------------------
(* Vector similarity: cosine rescaled to [0,1], in percent *)

Dot(a, b) == a[1] * b[1] + a[2] * b[2]

Norm(a) == CHOOSE n \in 0..Dot(a, a) : n * n = Dot(a, a)

Similarity(a, b) == (100 + (100 * Dot(a, b)) \div (Norm(a) * Norm(b))) \div 2

-------------------------------------------------------------------------------------------------------------------------------------------------
(* Statements of the record store *)

MatchingIds(cs, cocktail_name) ==
    { i \in DOMAIN cs : ILike(cs[i].name, NamePattern(cocktail_name)) }

FirstRow(cs, cocktail_name) ==
    IF MatchingIds(cs, cocktail_name) = {} THEN {0}
    ELSE MatchingIds(cs, cocktail_name)

FlavorScoreMissingAsZero(cs, query) ==
    [ i \in { j \in DOMAIN cs : query # <<>> } |->
        IF cs[i].flavor = <<>> THEN 0 ELSE Similarity(query, cs[i].flavor) ]

FlavorScore(cs, query) ==
    [ i \in { j \in DOMAIN cs : cs[j].flavor # <<>> /\ query # <<>> } |->
        Similarity(query, cs[i].flavor) ]

SimilarRows(cs, candidates, score, threshold, max_results) ==
    LET keep    == { i \in candidates : score[i] >= threshold }
        limited == Take(RankBy(keep, score), max_results)
    IN  [ k \in DOMAIN limited |->
            [ id |-> limited[k], name |-> cs[limited[k]].name,
              similarity |-> score[limited[k]], abv |-> cs[limited[k]].abv,
              tags |-> cs[limited[k]].tags ] ]

SqlFindSimilarCocktailsByFlavor(cs, cocktail_id, threshold, max_results) ==
    LET score == FlavorScore(cs, cs[cocktail_id].flavor)
    IN  SimilarRows(cs, DOMAIN score \ {cocktail_id}, score, threshold, max_results)

SqlSearchCocktailsByFlavorText(cs, embedding, max_results, threshold) ==
    LET score == FlavorScore(cs, embedding)
    IN  SimilarRows(cs, DOMAIN score, score, threshold, max_results)

KnownNames(igs, list) ==
    { igs[list[k]].name : k \in { j \in DOMAIN list : list[j] \in DOMAIN igs } }

MatchedCount(igs, list, requested) ==
    Cardinality({ q \in { LowerText(r) : r \in Range(requested) } :
                    \E n \in KnownNames(igs, list) : Contains(n, q) })

MatchPercentage(igs, list, requested) ==
    IF Len(list) = 0 THEN 0
    ELSE (100 * MatchedCount(igs, list, requested)) \div Len(list)

SqlFindCocktailsByIngredientSimilarity(cs, igs, requested, threshold, max_results) ==
    LET pct     == [ i \in DOMAIN cs |-> MatchPercentage(igs, cs[i].ingredients, requested) ]
        matched == [ i \in DOMAIN cs |-> MatchedCount(igs, cs[i].ingredients, requested) ]
        key     == [ i \in DOMAIN cs |-> pct[i] * 100 + matched[i] ]
        keep    == { i \in DOMAIN cs : pct[i] >= threshold }
        limited == Take(RankBy(keep, key), max_results)
    IN  [ k \in DOMAIN limited |->
            [ id |-> limited[k], name |-> cs[limited[k]].name,
              matching |-> matched[limited[k]],
              total |-> Len(cs[limited[k]].ingredients),
              percentage |-> pct[limited[k]] ] ]

SqlGetIngredientRecommendations(cs, igs, cocktail_id, max_results) ==
    LET anchor  == cs[cocktail_id]
        cand    == { g \in DOMAIN igs :
                       /\ igs[g].flavor # <<>>
                       /\ anchor.flavor # <<>>
                       /\ g \notin Range(anchor.ingredients) }
        score   == [ g \in cand |-> Similarity(anchor.flavor, igs[g].flavor) ]
        limited == Take(RankBy(cand, score), max_results)
    IN  [ k \in DOMAIN limited |->
            [ id |-> limited[k], name |-> igs[limited[k]].name,
              category |-> igs[limited[k]].category,
              similarity |-> score[limited[k]],
              strength |-> igs[limited[k]].strength ] ]

Qualifies(c, abv_min, abv_max, excluded, required) ==
    /\ \A v \in c.abv : abv_min <= v /\ v <= abv_max
    /\ \A t \in c.tags : \A e \in Range(excluded) : LowerTag(t) # LowerTag(e)
    /\ \A r \in Range(required) : \E t \in c.tags : LowerTag(t) = LowerTag(r)

SqlFindCocktailsByPreferences(cs, abv_min, abv_max, excluded, required, max_results) ==
    LET keep    == { i \in DOMAIN cs : Qualifies(cs[i], abv_min, abv_max, excluded, required) }
        limited == Take(RankBy(keep, [ i \in keep |-> 0 ]), max_results)
    IN  [ k \in DOMAIN limited |->
            [ id |-> limited[k], name |-> cs[limited[k]].name,
              abv |-> cs[limited[k]].abv, tags |-> cs[limited[k]].tags ] ]

SelectCocktailDetailsInnerJoin(cs, igs, cocktail_id) ==
    IF cocktail_id \notin DOMAIN cs THEN <<>>
    ELSE LET list == SelectSeq(cs[cocktail_id].ingredients,
                               LAMBDA g : g \in DOMAIN igs)
         IN  IF list = <<>> THEN <<>>
             ELSE << [ id |-> cocktail_id, name |-> cs[cocktail_id].name,
                       abv |-> cs[cocktail_id].abv,
                       ingredients |->
                         [ k \in DOMAIN list |-> [ name |-> { igs[list[k]].name } ] ] ] >>

SelectCocktailDetails(cs, igs, cocktail_id) ==
    IF cocktail_id \notin DOMAIN cs THEN <<>>
    ELSE LET list == cs[cocktail_id].ingredients
         IN  << [ id |-> cocktail_id, name |-> cs[cocktail_id].name,
                  abv |-> cs[cocktail_id].abv,
                  ingredients |->
                    IF list = <<>> THEN << [ name |-> {} ] >>
                    ELSE [ k \in DOMAIN list |->
                             [ name |-> IF list[k] \in DOMAIN igs
                                        THEN { igs[list[k]].name } ELSE {} ] ] ] >>

---------------------------------------------------------------------------
(* Outcome of one engine call *)

Outcome(kind, rows, err, log, stmts, anchor, fired) ==
    [ kind |-> kind, rows |-> rows, err |-> err, log |-> log,
      stmts |-> stmts, anchor |-> anchor, fired |-> fired ]

Returned(rows, stmts, anchor) ==
    Outcome("return", rows, "", "none", stmts, anchor, "none")

Caught(stmts, anchor, fired) ==
    Outcome("return", <<>>, "", "error", stmts, anchor, fired)

NotFound(stmts) ==
    Outcome("return", <<>>, "", "warning", stmts, {}, "none")

Raised(err, stmts, anchor, fired) ==
    Outcome("raise", <<>>, err, "none", stmts, anchor, fired)

WithResources(body, conn, cur) ==
    [ kind |-> body.kind, rows |-> body.rows, err |-> body.err,
      log |-> body.log, stmts |-> body.stmts, anchor |-> body.anchor,
      fired |-> body.fired, conn |-> conn, cur |-> cur ]

Finally(body, fault) ==
    IF fault = "close"
    THEN WithResources(Raised("InterfaceError", body.stmts, body.anchor, "close"),
                       "open", "open")
    ELSE WithResources(body, "closed", "closed")

Scoped(body, fault) ==
    IF fault = "connect"
    THEN WithResources(Raised("OperationalError", <<>>, {}, "connect"),
                       "none", "none")
    ELSE IF fault = "cursor"
    THEN WithResources(Raised("InterfaceError", <<>>, {}, "cursor"),
                       "open", "none")
    ELSE Finally(body, fault)

---------------------------------------------------------------------------
(* External embedder *)

Blank(text) == \A i \in DOMAIN text : text[i] = " "

ModelEncode(text) == IF Head(text) = "x" THEN <<1, 0>> ELSE <<4, 3>>

GetEmbedding(text, fault) ==
    IF Blank(text) THEN <<>>
    ELSE IF fault = "embed" THEN <<>>
    ELSE ModelEncode(text)

---------------------------------------------------------------------------
(* CocktailVectorSearch *)

DefaultMaxResults == 15

DefaultOverlapThreshold == 60

FloatOrNone(v) == IF v = {} \/ v = {0} THEN {} ELSE v

OrEmpty(v) == IF v = {} THEN "" ELSE CHOOSE x \in v : TRUE

ToCocktailMatch(row) ==
    [ cocktail_id |-> row.id, cocktail_name |-> row.name,
      similarity_score |-> row.similarity,
      abv |-> FloatOrNone(row.abv), tags |-> {} ]

ToFlavorTextMatch(row) ==
    [ cocktail_id |-> row.id, cocktail_name |-> row.name,
      similarity_score |-> row.similarity,
      abv |-> {}, tags |-> { row.tags } ]

ToIngredientOverlapSwapped(row) ==
    [ cocktail_id |-> row.id, cocktail_name |-> row.name,
      matching_ingredients |-> row.total,
      total_ingredients |-> row.matching,
      match_percentage |-> row.percentage ]

ToIngredientOverlap(row) ==
    [ cocktail_id |-> row.id, cocktail_name |-> row.name,
      matching_ingredients |-> row.matching,
      total_ingredients |-> row.total,
      match_percentage |-> row.percentage ]

ToIngredientMatch(row) ==
    [ ingredient_id |-> row.id, ingredient_name |-> row.name,
      similarity_score |-> row.similarity,
      category |-> OrEmpty(row.category),
      strength |-> FloatOrNone(row.strength) ]

ToPreferenceMatch(row) ==
    [ cocktail_id |-> row.id, cocktail_name |-> row.name,
      abv |-> FloatOrNone(row.abv), tags |-> row.tags ]

ToCocktailDetails(row) ==
    [ id |-> row.id, name |-> row.name, abv |-> FloatOrNone(row.abv),
      ingredients |-> row.ingredients ]

CocktailMatchesPrepended(results) ==
    [ k \in DOMAIN results |-> ToCocktailMatch(results[Len(results) + 1 - k]) ]

CocktailMatchesUnguarded(results) ==
    IF \E k \in DOMAIN results : results[k].abv = {} THEN <<>>
    ELSE [ k \in DOMAIN results |-> ToCocktailMatch(results[k]) ]

CocktailMatches(results) ==
    [ k \in DOMAIN results |-> ToCocktailMatch(results[k]) ]

IngredientMatches(results) ==
    [ k \in DOMAIN results |-> ToIngredientMatch(results[k]) ]

FindSimilarArgumentsSwapped(cs, cocktail_name, max_results, similarity_threshold, fault, first) ==
    LET results == SqlFindSimilarCocktailsByFlavor(
                       cs, first, max_results, similarity_threshold)
    IN  Scoped(
          IF fault = "execute1" THEN Caught(<<"lookup">>, {}, "execute1")
          ELSE IF MatchingIds(cs, cocktail_name) = {} THEN NotFound(<<"lookup">>)
          ELSE IF fault = "execute2"
               THEN Caught(<<"lookup", "scan">>, {first}, "execute2")
          ELSE Returned(CocktailMatches(results), <<"lookup", "scan">>, {first}),
          fault)

FindSimilarCocktailsByFlavor(cs, cocktail_name, max_results, similarity_threshold, fault, first) ==
    LET results == SqlFindSimilarCocktailsByFlavor(
                       cs, first, similarity_threshold, max_results)
    IN  Scoped(
          IF fault = "execute1" THEN Caught(<<"lookup">>, {}, "execute1")
          ELSE IF MatchingIds(cs, cocktail_name) = {} THEN NotFound(<<"lookup">>)
          ELSE IF fault = "execute2"
               THEN Caught(<<"lookup", "scan">>, {first}, "execute2")
          ELSE Returned(CocktailMatches(results), <<"lookup", "scan">>, {first}),
          fault)

SearchCocktailsByFlavorDescription(cs, flavor_description, max_results, similarity_threshold, fault) ==
    LET flavor_embedding == GetEmbedding(flavor_description, fault)
        results == SqlSearchCocktailsByFlavorText(
                       cs, flavor_embedding, max_results, similarity_threshold)
    IN  IF flavor_embedding = <<>>
        THEN WithResources(Caught(<<>>, {}, "embed"), "none", "none")
        ELSE IF fault = "connect"
        THEN WithResources(Caught(<<>>, {}, "connect"), "none", "none")
        ELSE IF fault = "cursor"
        THEN WithResources(Caught(<<>>, {}, "cursor"), "closed", "none")
        ELSE Finally(
               IF fault = "execute1" THEN Caught(<<"scan">>, {}, "execute1")
               ELSE Returned([ k \in DOMAIN results |-> ToFlavorTextMatch(results[k]) ],
                             <<"scan">>, {}),
               fault)

IngredientSimilarityDefaultLimit(cs, igs, requested, similarity_threshold, max_results, fault) ==
    LET results == SqlFindCocktailsByIngredientSimilarity(
                       cs, igs, requested, similarity_threshold, DefaultMaxResults)
    IN  Scoped(
          IF fault = "execute1" THEN Caught(<<"overlap">>, {}, "execute1")
          ELSE Returned([ k \in DOMAIN results |-> ToIngredientOverlap(results[k]) ],
                        <<"overlap">>, {}),
          fault)

IngredientSimilarityArgumentsSwapped(cs, igs, requested, similarity_threshold, max_results, fault) ==
    LET results == SqlFindCocktailsByIngredientSimilarity(
                       cs, igs, requested, max_results, similarity_threshold)
    IN  Scoped(
          IF fault = "execute1" THEN Caught(<<"overlap">>, {}, "execute1")
          ELSE Returned([ k \in DOMAIN results |-> ToIngredientOverlap(results[k]) ],
                        <<"overlap">>, {}),
          fault)

IngredientSimilarityDefaultThreshold(cs, igs, requested, similarity_threshold, max_results, fault) ==
    LET results == SqlFindCocktailsByIngredientSimilarity(
                       cs, igs, requested, DefaultOverlapThreshold, max_results)
    IN  Scoped(
          IF fault = "execute1" THEN Caught(<<"overlap">>, {}, "execute1")
          ELSE Returned([ k \in DOMAIN results |-> ToIngredientOverlap(results[k]) ],
                        <<"overlap">>, {}),
          fault)

FindCocktailsByIngredientSimilarity(cs, igs, requested, similarity_threshold, max_results, fault) ==
    LET results == SqlFindCocktailsByIngredientSimilarity(
                       cs, igs, requested, similarity_threshold, max_results)
    IN  Scoped(
          IF fault = "execute1" THEN Caught(<<"overlap">>, {}, "execute1")
          ELSE Returned([ k \in DOMAIN results |-> ToIngredientOverlap(results[k]) ],
                        <<"overlap">>, {}),
          fault)

IngredientRecommendationsArgumentsSwapped(cs, igs, cocktail_name, max_results, fault, first) ==
    LET results == SqlGetIngredientRecommendations(cs, igs, max_results, first)
    IN  Scoped(
          IF fault = "execute1" THEN Caught(<<"lookup">>, {}, "execute1")
          ELSE IF MatchingIds(cs, cocktail_name) = {} THEN NotFound(<<"lookup">>)
          ELSE IF fault = "execute2"
               THEN Caught(<<"lookup", "scan">>, {first}, "execute2")
          ELSE Returned(IngredientMatches(results), <<"lookup", "scan">>, {first}),
          fault)

GetIngredientRecommendations(cs, igs, cocktail_name, max_results, fault, first) ==
    LET results == SqlGetIngredientRecommendations(cs, igs, first, max_results)
    IN  Scoped(
          IF fault = "execute1" THEN Caught(<<"lookup">>, {}, "execute1")
          ELSE IF MatchingIds(cs, cocktail_name) = {} THEN NotFound(<<"lookup">>)
          ELSE IF fault = "execute2"
               THEN Caught(<<"lookup", "scan">>, {first}, "execute2")
          ELSE Returned(IngredientMatches(results), <<"lookup", "scan">>, {first}),
          fault)

PreferencesListsSwapped(cs, preferred_strength_min, preferred_strength_max, excluded_categories, required_tags, max_results, fault) ==
    LET results == SqlFindCocktailsByPreferences(
                       cs, preferred_strength_min, preferred_strength_max,
                       required_tags, excluded_categories, max_results)
    IN  Scoped(
          IF fault = "execute1" THEN Caught(<<"filter">>, {}, "execute1")
          ELSE IF preferred_strength_min > preferred_strength_max
               THEN Caught(<<"filter">>, {}, "invalid_range")
          ELSE Returned([ k \in DOMAIN results |-> ToPreferenceMatch(results[k]) ],
                        <<"filter">>, {}),
          fault)

PreferencesPrepended(cs, preferred_strength_min, preferred_strength_max, excluded_categories, required_tags, max_results, fault) ==
    LET results == SqlFindCocktailsByPreferences(
                       cs, preferred_strength_min, preferred_strength_max,
                       excluded_categories, required_tags, max_results)
    IN  Scoped(
          IF fault = "execute1" THEN Caught(<<"filter">>, {}, "execute1")
          ELSE IF preferred_strength_min > preferred_strength_max
               THEN Caught(<<"filter">>, {}, "invalid_range")
          ELSE Returned([ k \in DOMAIN results |->
                            ToPreferenceMatch(results[Len(results) + 1 - k]) ],
                        <<"filter">>, {}),
          fault)

FindCocktailsByPreferences(cs, preferred_strength_min, preferred_strength_max, excluded_categories, required_tags, max_results, fault) ==
    LET results == SqlFindCocktailsByPreferences(
                       cs, preferred_strength_min, preferred_strength_max,
                       excluded_categories, required_tags, max_results)
    IN  Scoped(
          IF fault = "execute1" THEN Caught(<<"filter">>, {}, "execute1")
          ELSE IF preferred_strength_min > preferred_strength_max
               THEN Caught(<<"filter">>, {}, "invalid_range")
          ELSE Returned([ k \in DOMAIN results |-> ToPreferenceMatch(results[k]) ],
                        <<"filter">>, {}),
          fault)

GetCocktailDetails(cs, igs, cocktail_id, fault) ==
    LET result == SelectCocktailDetails(cs, igs, cocktail_id)
    IN  Scoped(
          IF fault = "execute1" THEN Caught(<<"select">>, {}, "execute1")
          ELSE Returned([ k \in DOMAIN result |-> ToCocktailDetails(result[k]) ],
                        <<"select">>, {}),
          fault)

---------------------------------------------------------------------------
(* HTTP endpoint GET /cocktails/search/preferences *)

MaxAbvQuery == 100

MaxResultsQuery == 50

WithStatus(out, status) ==
    [ kind |-> out.kind, rows |-> out.rows, err |-> out.err, log |-> out.log,
      stmts |-> out.stmts, anchor |-> out.anchor, fired |-> out.fired,
      conn |-> out.conn, cur |-> out.cur, status |-> status ]

SearchByPreferences(cs, min_abv, max_abv, excluded_categories, required_tags, max_results, fault) ==
    LET out == FindCocktailsByPreferences(cs, min_abv, max_abv, excluded_categories,
                                          required_tags, max_results, fault)
    IN  IF ~ /\ 0 <= min_abv /\ min_abv <= MaxAbvQuery
             /\ 0 <= max_abv /\ max_abv <= MaxAbvQuery
             /\ 1 <= max_results /\ max_results <= MaxResultsQuery
        THEN WithStatus(WithResources(Raised("RequestValidationError", <<>>, {}, "none"),
                                      "none", "none"), 422)
        ELSE IF out.kind = "raise" THEN WithStatus(out, 500)
        ELSE WithStatus(out, 200)

MaxThresholdQuery == 100

Unprocessable ==
    WithStatus(WithResources(Raised("RequestValidationError", <<>>, {}, "none"),
                             "none", "none"), 422)

Unavailable ==
    WithStatus(WithResources(Raised("HTTPException", <<>>, {}, "none"),
                             "none", "none"), 503)

ValidQuery(max_results, threshold) ==
    /\ 1 <= max_results /\ max_results <= MaxResultsQuery
    /\ 0 <= threshold /\ threshold <= MaxThresholdQuery

ApiFindSimilarCocktails(search_api, cs, cocktail_name, max_results, threshold, fault, first) ==
    LET out == FindSimilarCocktailsByFlavor(cs, cocktail_name, max_results,
                                            threshold, fault, first)
    IN  IF ~ ValidQuery(max_results, threshold) THEN Unprocessable
        ELSE IF ~ search_api THEN Unavailable
        ELSE IF out.kind = "raise" THEN WithStatus(out, 500)
        ELSE WithStatus(out, 200)

ApiSearchByFlavor(search_api, cs, description, max_results, threshold, fault) ==
    LET out == SearchCocktailsByFlavorDescription(cs, description, max_results,
                                                  threshold, fault)
    IN  IF ~ ValidQuery(max_results, threshold) THEN Unprocessable
        ELSE IF ~ search_api THEN Unavailable
        ELSE IF out.kind = "raise" THEN WithStatus(out, 500)
        ELSE WithStatus(out, 200)

ApiGetCocktailDetails(search_api, cs, igs, cocktail_id, fault) ==
    LET details == GetCocktailDetails(cs, igs, cocktail_id, fault)
    IN  IF ~ search_api THEN Unavailable
        ELSE IF details.kind = "raise" THEN WithStatus(details, 500)
        ELSE IF details.rows = <<>>
        THEN WithStatus([ details EXCEPT !.kind = "raise", !.err = "HTTPException" ], 404)
        ELSE WithStatus(details, 200)

---------------------------------------------------------------------------
(* Command line: tools/cocktail_search_cli.py *)

CliSimilarThreshold == 60

CliFlavorThreshold == 40

CliIngredientThreshold == 30

CliReport(out) ==
    [ out EXCEPT !.kind = "return" ]
      @@ [ printed |-> IF out.kind = "raise" THEN "error"
                       ELSE IF out.rows = <<>> THEN "nothing found"
                       ELSE "results" ]

CliSearchSimilarCocktails(cs, cocktail_name, max_results, fault, first) ==
    CliReport(FindSimilarCocktailsByFlavor(
                  cs, cocktail_name, max_results, CliSimilarThreshold, fault, first))

CliSearchByFlavor(cs, flavor_description, max_results, fault) ==
    CliReport(SearchCocktailsByFlavorDescription(
                  cs, flavor_description, max_results, CliFlavorThreshold, fault))

CliSearchByIngredients(cs, igs, requested, max_results, fault) ==
    CliReport(FindCocktailsByIngredientSimilarity(
                  cs, igs, requested, CliIngredientThreshold, max_results, fault))

CliGetIngredientRecommendations(cs, igs, cocktail_name, max_results, fault, first) ==
    CliReport(GetIngredientRecommendations(
                  cs, igs, cocktail_name, max_results, fault, first))

CliShowCocktailDetails(cs, igs, cocktail_name, fault, first) ==
    LET details == GetCocktailDetails(cs, igs, first, "none")
    IN  IF fault = "connect"
        THEN CliReport(WithResources(Raised("OperationalError", <<>>, {}, "connect"),
                                     "none", "none"))
        ELSE IF MatchingIds(cs, cocktail_name) = {}
        THEN CliReport(WithResources(Returned(<<>>, <<"lookup">>, {}),
                                     "closed", "closed"))
        ELSE CliReport([ details EXCEPT !.stmts = <<"lookup">> \o details.stmts,
                                        !.anchor = {first} ])

Main(cs, igs, args, fault, first) ==
    IF args.command = "similar"
    THEN CliSearchSimilarCocktails(cs, args.cocktail, args.max_results, fault, first)
    ELSE IF args.command = "flavor"
    THEN CliSearchByFlavor(cs, args.description, args.max_results, fault)
    ELSE IF args.command = "ingredients"
    THEN CliSearchByIngredients(cs, igs, args.ingredients, args.max_results, fault)
    ELSE IF args.command = "recommend"
    THEN CliGetIngredientRecommendations(cs, igs, args.cocktail, args.max_results,
                                         fault, first)
    ELSE IF args.command = "details"
    THEN CliShowCocktailDetails(cs, igs, args.cocktail, fault, first)
    ELSE CliReport(WithResources(Returned(<<"help">>, <<>>, {}), "none", "none"))

---------------------------------------------------------------------------
(* Loader: the text a record is embedded from (CocktailVectorEmbedder) *)

TruthyText(v) == \E x \in v : x # <<>>

TruthyNumber(v) == \E x \in v : x # 0

TextOf(v) == IF v = {} THEN <<>> ELSE CHOOSE x \in v : TRUE

NumberOf(v) == IF v = {} THEN 0 ELSE CHOOSE x \in v : TRUE

RECURSIVE Join(_, _)
Join(parts, sep) ==
    IF parts = <<>> THEN <<>>
    ELSE IF Len(parts) = 1 THEN parts[1]
    ELSE parts[1] \o sep \o Join(Tail(parts), sep)

Part(present, text) == IF present THEN << text >> ELSE <<>>

StrengthText(strength) ==
    IF strength = 0 THEN <<"Non-alcoholic">>
    ELSE IF strength < 20 THEN <<"Low alcohol content">>
    ELSE IF strength < 40 THEN <<"Medium alcohol content">>
    ELSE <<"High alcohol content">>

CategoryFlavors(category) ==
    IF category = { <<"Spirit">> } THEN { <<"strong, warming, complex">> }
    ELSE IF category = { <<"Gin">> } THEN { <<"botanical, juniper, crisp">> }
    ELSE {}

CreateFlavorProfileText(ingredient) ==
    Join(Part(TruthyText(ingredient.name),
              <<"Ingredient:", " ">> \o TextOf(ingredient.name))
         \o Part(TruthyText(ingredient.category),
                 <<"Category:", " ">> \o TextOf(ingredient.category))
         \o Part(TruthyText(ingredient.description),
                 <<"Description:", " ">> \o TextOf(ingredient.description))
         \o Part(TruthyText(ingredient.origin),
                 <<"Origin:", " ">> \o TextOf(ingredient.origin))
         \o Part(TruthyNumber(ingredient.strength),
                 StrengthText(NumberOf(ingredient.strength)))
         \o Part(CategoryFlavors(ingredient.category) # {},
                 <<"Flavor profile:", " ">> \o TextOf(CategoryFlavors(ingredient.category))),
         <<".", " ">>)

MethodDescriptions(method) ==
    IF method = <<"Shake">> THEN <<"shaken for aeration and dilution">>
    ELSE IF method = <<"Stir">> THEN <<"stirred for smoothness and clarity">>
    ELSE method

CategoryOfEntry(ing) == IF ing.category = {} THEN <<"Unknown">> ELSE TextOf(ing.category)

RECURSIVE Distinct(_)
Distinct(s) ==
    IF s = <<>> THEN <<>>
    ELSE LET front == Distinct(SubSeq(s, 1, Len(s) - 1))
         IN  IF s[Len(s)] \in Range(front) THEN front ELSE Append(front, s[Len(s)])

IngredientSummary(ingredient_list) ==
    LET categories == Distinct([ k \in DOMAIN ingredient_list |-> CategoryOfEntry(ingredient_list[k]) ])
        NamesOf(category) ==
            LET InCategory(ing) == CategoryOfEntry(ing) = category
                entries == SelectSeq(ingredient_list, InCategory)
            IN  Join([ k \in DOMAIN entries |-> TextOf(entries[k].name) ], <<",", " ">>)
    IN  [ k \in DOMAIN categories |->
            categories[k] \o <<":", " ">> \o NamesOf(categories[k]) ]

CreateCocktailFlavorSummary(cocktail, ingredient_list) ==
    Join(Part(TruthyText(cocktail.name),
              <<"Cocktail:", " ">> \o TextOf(cocktail.name))
         \o Part(TruthyText(cocktail.description),
                 <<"Description:", " ">> \o TextOf(cocktail.description))
         \o Part(TruthyText(cocktail.method),
                 <<"Preparation:", " ">> \o MethodDescriptions(TextOf(cocktail.method)))
         \o Part(TruthyText(cocktail.tags),
                 <<"Style:", " ">> \o Join(TextOf(cocktail.tags), <<",", " ">>))
         \o Part(IngredientSummary(ingredient_list) # <<>>,
                 <<"Ingredients", " ", "-", " ">>
                    \o Join(IngredientSummary(ingredient_list), <<";", " ">>)),
         <<".", " ">>)

CreateMethodDescription(cocktail) ==
    Join(Part(TruthyText(cocktail.method),
              <<"Primary method:", " ">> \o TextOf(cocktail.method))
         \o Part(TruthyText(cocktail.glass),
                 <<"Served in:", " ">> \o TextOf(cocktail.glass))
         \o Part(TruthyText(cocktail.garnish),
                 <<"Garnished with:", " ">> \o TextOf(cocktail.garnish))
         \o Part(TruthyText(cocktail.instructions),
                 <<"Instructions:", " ">> \o TextOf(cocktail.instructions)),
         <<".", " ">>)

IngredientNames(ingredient_list) ==
    LET Named(ing) == TruthyText(ing.name)
        named == SelectSeq(ingredient_list, Named)
    IN  [ k \in DOMAIN named |-> TextOf(named[k].name) ]

EmbedIfPresent(present, text, fault) ==
    IF present THEN GetEmbedding(text, fault) ELSE <<>>

---------------------------------------------------------------------------
(* Loader: the tables, and the statements of one connection.  A failed     *)
(* statement aborts the transaction: every later statement raises until    *)
(* the transaction ends, and committing an aborted transaction rolls it    *)
(* back.  CURRENT_TIMESTAMP is the start of the transaction (now).         *)

EmptyTables == [ cocktails |-> <<>>, ingredients |-> <<>>, cocktail_ingredients |-> {} ]

EmptyDatabase ==
    [ committed |-> EmptyTables, working |-> EmptyTables, aborted |-> FALSE,
      now |-> 1, serial |-> [ cocktails |-> 0, ingredients |-> 0 ] ]

NoConflict(table, row) == {}

Conflicts(table, row) ==
    { k \in DOMAIN table : row._id # {} /\ table[k]._id = row._id }

IngredientRow(ingredient, fault, now) ==
    LET flavor_profile_text == CreateFlavorProfileText(ingredient)
    IN  [ _id |-> ingredient._id, name |-> ingredient.name,
          strength |-> ingredient.strength, description |-> ingredient.description,
          origin |-> ingredient.origin, category |-> ingredient.category,
          units |-> ingredient.units,
          description_embedding |->
              EmbedIfPresent(TruthyText(ingredient.description),
                             TextOf(ingredient.description), fault),
          flavor_profile_embedding |->
              EmbedIfPresent(flavor_profile_text # <<>>, flavor_profile_text, fault),
          category_embedding |->
              EmbedIfPresent(TruthyText(ingredient.category),
                             TextOf(ingredient.category), fault),
          updated_at_db |-> now ]

UpsertIngredient(table, id, row) ==
    IF Conflicts(table, row) = {} THEN (id :> row) @@ table
    ELSE [ k \in DOMAIN table |->
             IF k \in Conflicts(table, row)
             THEN [ table[k] EXCEPT
                      !.name = row.name, !.strength = row.strength,
                      !.description = row.description, !.origin = row.origin,
                      !.category = row.category,
                      !.description_embedding = row.description_embedding,
                      !.flavor_profile_embedding = row.flavor_profile_embedding,
                      !.category_embedding = row.category_embedding,
                      !.updated_at_db = row.updated_at_db ]
             ELSE table[k] ]

CocktailRow(cocktail, fault, now) ==
    LET ingredient_list == cocktail.ingredients
        flavor_summary == CreateCocktailFlavorSummary(cocktail, ingredient_list)
        method_description == CreateMethodDescription(cocktail)
        ingredient_names == IngredientNames(ingredient_list)
    IN  [ _id |-> cocktail._id, name |-> cocktail.name,
          instructions |-> cocktail.instructions,
          description |-> cocktail.description, source |-> cocktail.source,
          garnish |-> cocktail.garnish, abv |-> cocktail.abv,
          tags |-> cocktail.tags, glass |-> cocktail.glass,
          method |-> cocktail.method, utensils |-> cocktail.utensils,
          description_embedding |->
              EmbedIfPresent(TruthyText(cocktail.description),
                             TextOf(cocktail.description), fault),
          flavor_embedding |->
              EmbedIfPresent(flavor_summary # <<>>, flavor_summary, fault),
          method_embedding |->
              EmbedIfPresent(method_description # <<>>, method_description, fault),
          ingredient_summary_embedding |->
              EmbedIfPresent(ingredient_names # <<>>,
                             <<"Contains:", " ">> \o Join(ingredient_names, <<",", " ">>),
                             fault),
          tags_embedding |->
              EmbedIfPresent(TruthyText(cocktail.tags),
                             Join(TextOf(cocktail.tags), <<",", " ">>), fault),
          updated_at_db |-> now ]

UpsertCocktailReplacing(table, id, row) ==
    IF Conflicts(table, row) = {} THEN (id :> row) @@ table
    ELSE [ k \in DOMAIN table |->
             IF k \in Conflicts(table, row) THEN row ELSE table[k] ]

UpsertCocktail(table, id, row) ==
    IF Conflicts(table, row) = {} THEN (id :> row) @@ table
    ELSE [ k \in DOMAIN table |->
             IF k \in Conflicts(table, row)
             THEN [ table[k] EXCEPT
                      !.name = row.name, !.instructions = row.instructions,
                      !.description = row.description,
                      !.description_embedding = row.description_embedding,
                      !.flavor_embedding = row.flavor_embedding,
                      !.method_embedding = row.method_embedding,
                      !.ingredient_summary_embedding = row.ingredient_summary_embedding,
                      !.tags_embedding = row.tags_embedding,
                      !.updated_at_db = row.updated_at_db ]
             ELSE table[k] ]

ReturningId(table, id, row) ==
    IF Conflicts(table, row) = {} THEN id ELSE CHOOSE k \in Conflicts(table, row) : TRUE

SameLink(a, b) ==
    /\ a.cocktail_id = b.cocktail_id
    /\ a.ingredient_id = b.ingredient_id
    /\ a.sort_order = b.sort_order

RECURSIVE InsertLinksUpdating(_, _, _, _)
InsertLinksUpdating(links, ingredient_table, cocktail_db_id, ingredient_list) ==
    IF ingredient_list = <<>> THEN links
    ELSE LET ing == Head(ingredient_list)
             ingredient_result ==
                 { g \in DOMAIN ingredient_table :
                     TruthyNumber(ing._id) /\ ingredient_table[g]._id = ing._id }
             link == [ cocktail_id |-> cocktail_db_id,
                       ingredient_id |-> CHOOSE g \in ingredient_result : TRUE,
                       amount |-> ing.amount, units |-> ing.units,
                       optional |-> ing.optional, note |-> ing.note,
                       sort_order |-> NumberOf(ing.sort) ]
         IN  InsertLinksUpdating(
                 IF ingredient_result = {} THEN links
                 ELSE { l \in links : ~SameLink(l, link) } \cup { link },
                 ingredient_table, cocktail_db_id, Tail(ingredient_list))

RECURSIVE InsertLinks(_, _, _, _)
InsertLinks(links, ingredient_table, cocktail_db_id, ingredient_list) ==
    IF ingredient_list = <<>> THEN links
    ELSE LET ing == Head(ingredient_list)
             ingredient_result ==
                 { g \in DOMAIN ingredient_table :
                     TruthyNumber(ing._id) /\ ingredient_table[g]._id = ing._id }
             link == [ cocktail_id |-> cocktail_db_id,
                       ingredient_id |-> CHOOSE g \in ingredient_result : TRUE,
                       amount |-> ing.amount, units |-> ing.units,
                       optional |-> ing.optional, note |-> ing.note,
                       sort_order |-> NumberOf(ing.sort) ]
         IN  InsertLinks(
                 IF ingredient_result = {} THEN links
                 ELSE IF \E l \in links : SameLink(l, link) THEN links
                 ELSE links \cup { link },
                 ingredient_table, cocktail_db_id, Tail(ingredient_list))

Execute(db, fault, working, serial) ==
    IF db.aborted THEN [ db |-> db, raised |-> TRUE ]
    ELSE IF fault = "execute"
    THEN [ db |-> [ db EXCEPT !.aborted = TRUE ], raised |-> TRUE ]
    ELSE [ db |-> [ db EXCEPT !.working = working, !.serial = serial ],
           raised |-> FALSE ]

InsertIngredientWithVectors(db, ingredient, fault) ==
    LET id == db.serial.ingredients + 1
    IN  Execute(db, fault,
                [ db.working EXCEPT !.ingredients =
                    UpsertIngredient(@, id, IngredientRow(ingredient, fault, db.now)) ],
                [ db.serial EXCEPT !.ingredients = id ])

InsertCocktailWithVectors(db, cocktail, fault) ==
    LET id == db.serial.cocktails + 1
        row == CocktailRow(cocktail, fault, db.now)
        cocktail_db_id == ReturningId(db.working.cocktails, id, row)
    IN  Execute(db, fault,
                [ db.working EXCEPT
                    !.cocktails = UpsertCocktail(@, id, row),
                    !.cocktail_ingredients =
                        InsertLinks(@, db.working.ingredients, cocktail_db_id,
                                    cocktail.ingredients) ],
                [ db.serial EXCEPT !.cocktails = id ])

Commit(db) ==
    IF db.aborted
    THEN [ db EXCEPT !.working = db.committed, !.aborted = FALSE, !.now = @ + 1 ]
    ELSE [ db EXCEPT !.committed = db.working, !.now = @ + 1 ]

---------------------------------------------------------------------------
(* What the engine reads: the committed rows, in the shape of its queries *)

AsString(text) == IF text = <<>> THEN "" ELSE text[1]

LinkedIngredients(tables, id) ==
    LET links == { l \in tables.cocktail_ingredients : l.cocktail_id = id }
        linked == { l.ingredient_id : l \in links }
        first == [ g \in linked |->
                     CHOOSE n \in { l.sort_order : l \in { m \in links : m.ingredient_id = g } } :
                         \A l \in links : l.ingredient_id = g => n <= l.sort_order ]
    IN  RankBy(linked, [ g \in linked |-> 0 - first[g] ])

CocktailsView(tables) ==
    [ id \in DOMAIN tables.cocktails |->
        [ name |-> TextOf(tables.cocktails[id].name),
          flavor |-> tables.cocktails[id].flavor_embedding,
          abv |-> tables.cocktails[id].abv,
          tags |-> { AsString(t) : t \in Range(TextOf(tables.cocktails[id].tags)) },
          ingredients |-> LinkedIngredients(tables, id) ] ]

IngredientsView(tables) ==
    [ id \in DOMAIN tables.ingredients |->
        [ name |-> TextOf(tables.ingredients[id].name),
          flavor |-> tables.ingredients[id].flavor_profile_embedding,
          category |-> { AsString(t) : t \in tables.ingredients[id].category },
          strength |-> tables.ingredients[id].strength ] ]

---------------------------------------------------------------------------
(* Loader: the data directories.  The file at position k of a directory    *)
(* holds the record of identity k.  A slot says what is particular to the  *)
(* file: its defect (unreadable JSON, a row the INSERT rejects, a text the *)
(* embedder fails on) and the texts that vary.  An edition is the content  *)
(* of the files at one run: edition 2 changes every field of edition 1.    *)
(* The loader remembers, for the claims, the edition of the previous run   *)
(* (previous, 0 before the first) and the committed tables at the start of *)
(* the current run (before).                                               *)

CommitEvery == 10

Entry(ref, edition) ==
    [ _id |-> ref._id, name |-> ref.name, category |-> {},
      amount |-> { 30 * edition }, units |-> { <<"ml">> },
      optional |-> (edition = 2),
      note |-> IF edition = 1 THEN {} ELSE { <<"x">> },
      sort |-> IF ref._id = {2} THEN {} ELSE ref._id ]

IngredientFile(k, slot, edition) ==
    [ _id |-> {k}, name |-> slot.name,
      strength |-> IF edition = 1 THEN {40} ELSE {0},
      description |-> IF edition = 1 THEN slot.description ELSE { <<"y">> },
      origin |-> IF edition = 1 THEN {} ELSE { <<"y">> },
      category |-> slot.category,
      units |-> IF edition = 1 THEN { <<"ml">> } ELSE { <<"oz">> } ]

CocktailFile(k, slot, edition) ==
    [ _id |-> {k},
      name |-> IF edition = 1 THEN { <<"a">> } ELSE { <<"a", "b">> },
      instructions |-> IF edition = 1 THEN slot.instructions ELSE { <<"y">> },
      description |-> IF edition = 1 THEN slot.description ELSE { <<"y">> },
      source |-> IF edition = 1 THEN { <<"x">> } ELSE { <<"y">> },
      garnish |-> IF edition = 1 THEN {} ELSE { <<"y">> },
      abv |-> IF edition = 1 THEN AbvOf(k) ELSE {30},
      tags |-> IF edition = 1 THEN slot.tags ELSE { << <<"classic">> >> },
      glass |-> IF edition = 1 THEN {} ELSE { <<"y">> },
      method |-> IF edition = 1 THEN slot.method ELSE { <<"Stir">> },
      utensils |-> IF edition = 1 THEN {} ELSE { <<"y">> },
      ingredients |-> [ j \in DOMAIN slot.refs |-> Entry(slot.refs[j], edition) ] ]

Listing(slots) == UNION { [ 1..n -> slots ] : n \in 0..MaxFiles }

LoaderIdle ==
    [ pc |-> "idle", run |-> 0, i |-> 0, edition |-> 1,
      directory |-> [ ingredients |-> <<>>, cocktails |-> <<>> ],
      previous |-> 0, before |-> EmptyTables ]

---------------------------------------------------------------------------
(* Loader: main *)

Publish(db) ==
    /\ database' = db
    /\ cocktails' = CocktailsView(db.committed)
    /\ ingredients' = IngredientsView(db.committed)

Processed(done, i) ==
    IF ~done.raised /\ (i + 1) % CommitEvery = 0 THEN Commit(done.db) ELSE done.db

LoaderStart(editions) ==
    /\ loader.pc = "idle"
    /\ loader.run < MaxRuns
    /\ \E edition \in editions :
         loader' = [ loader EXCEPT
                       !.pc = "ingredients", !.run = @ + 1, !.i = 0,
                       !.edition = edition,
                       !.previous = IF loader.run = 0 THEN 0 ELSE loader.edition,
                       !.before = database.committed ]
    /\ UNCHANGED <<cocktails, ingredients, last, database, calls, agent>>

ProcessIngredient ==
    /\ loader.pc = "ingredients"
    /\ loader.i < Len(loader.directory.ingredients)
    /\ LET slot == loader.directory.ingredients[loader.i + 1]
           ingredient == IngredientFile(loader.i + 1, slot, loader.edition)
           done == IF slot.defect = "json" THEN [ db |-> database, raised |-> TRUE ]
                   ELSE InsertIngredientWithVectors(database, ingredient, slot.defect)
       IN  Publish(Processed(done, loader.i))
    /\ loader' = [ loader EXCEPT !.i = @ + 1 ]
    /\ UNCHANGED <<last, calls, agent>>

IngredientsDone ==
    /\ loader.pc = "ingredients"
    /\ loader.i = Len(loader.directory.ingredients)
    /\ Publish(Commit(database))
    /\ loader' = [ loader EXCEPT !.pc = "cocktails", !.i = 0 ]
    /\ UNCHANGED <<last, calls, agent>>

ProcessCocktail ==
    /\ loader.pc = "cocktails"
    /\ loader.i < Len(loader.directory.cocktails)
    /\ LET slot == loader.directory.cocktails[loader.i + 1]
           cocktail == CocktailFile(loader.i + 1, slot, loader.edition)
           done == IF slot.defect = "json" THEN [ db |-> database, raised |-> TRUE ]
                   ELSE InsertCocktailWithVectors(database, cocktail, slot.defect)
       IN  Publish(Processed(done, loader.i))
    /\ loader' = [ loader EXCEPT !.i = @ + 1 ]
    /\ UNCHANGED <<last, calls, agent>>

CocktailsDone ==
    /\ loader.pc = "cocktails"
    /\ loader.i = Len(loader.directory.cocktails)
    /\ Publish(Commit(database))
    /\ loader' = [ loader EXCEPT !.pc = "idle", !.i = 0 ]
    /\ UNCHANGED <<last, calls, agent>>

---------------------------------------------------------------------------
(* Concurrent callers of one CocktailVectorSearch: the statements of       *)
(* find_similar_cocktails_by_flavor, one step each.  The instance holds    *)
(* db_config only; connection and cursor are locals of the call.           *)

Callers == { 1, 2 }

IdleFrame ==
    [ pc |-> "idle", args |-> <<>>, cocktail_id |-> {}, store |-> <<>>,
      seen |-> <<>>, out |-> <<>> ]

NoCalls ==
    [ frames |-> [ k \in Callers |-> IdleFrame ],
      cursors |-> [ k \in Callers |-> <<>> ] ]

SharedCursor(caller) == 1

OwnCursor(caller) == caller

Fetched(caller) == calls.cursors[OwnCursor(caller)]

Executed(caller, rows) == [ calls.cursors EXCEPT ![OwnCursor(caller)] = rows ]

Closed(caller) == [ calls.cursors EXCEPT ![OwnCursor(caller)] = <<>> ]

Step(caller, frame, cursors) ==
    /\ calls' = [ frames |-> [ calls.frames EXCEPT ![caller] = frame ],
                  cursors |-> cursors ]
    /\ UNCHANGED <<cocktails, ingredients, last, database, loader, agent>>

CallBegin(callers, thresholds) ==
    \E caller \in callers, cocktail_name \in AnchorSet,
       max_results \in MaxResultsSet, similarity_threshold \in thresholds :
        /\ calls.frames[caller].pc = "idle"
        /\ Step(caller,
                [ IdleFrame EXCEPT
                    !.pc = "connected",
                    !.args = [ cocktail_name |-> cocktail_name,
                               max_results |-> max_results,
                               similarity_threshold |-> similarity_threshold ],
                    !.store = cocktails ],
                calls.cursors)

CallLookup ==
    \E caller \in Callers :
        /\ calls.frames[caller].pc = "connected"
        /\ \E first \in FirstRow(cocktails, calls.frames[caller].args.cocktail_name) :
             Step(caller, [ calls.frames[caller] EXCEPT !.pc = "looked" ],
                  Executed(caller, IF first = 0 THEN <<>> ELSE << [ id |-> first ] >>))

CallFetchOne ==
    \E caller \in Callers :
        LET frame == calls.frames[caller]
            result == Fetched(caller)
        IN  /\ frame.pc = "looked"
            /\ IF result = <<>>
               THEN Step(caller,
                         [ frame EXCEPT !.pc = "done",
                                        !.out = Finally(NotFound(<<"lookup">>), "none") ],
                         Closed(caller))
               ELSE Step(caller,
                         [ frame EXCEPT !.pc = "resolved",
                                        !.cocktail_id = { result[1].id } ],
                         calls.cursors)

CallScan ==
    \E caller \in Callers :
        LET frame == calls.frames[caller]
            cocktail_id == CHOOSE id \in frame.cocktail_id : TRUE
        IN  /\ frame.pc = "resolved"
            /\ Step(caller,
                    [ frame EXCEPT !.pc = "scanned", !.seen = cocktails ],
                    Executed(caller,
                             SqlFindSimilarCocktailsByFlavor(
                                 cocktails, cocktail_id,
                                 frame.args.similarity_threshold,
                                 frame.args.max_results)))

CallFetchAll ==
    \E caller \in Callers :
        LET frame == calls.frames[caller]
            results == Fetched(caller)
            body == IF \A k \in DOMAIN results : "name" \in DOMAIN results[k]
                    THEN Returned(CocktailMatches(results), <<"lookup", "scan">>,
                                  frame.cocktail_id)
                    ELSE Caught(<<"lookup", "scan">>, frame.cocktail_id, "convert")
        IN  /\ frame.pc = "scanned"
            /\ Step(caller,
                    [ frame EXCEPT !.pc = "done", !.out = Finally(body, "none") ],
                    Closed(caller))

CallReturn ==
    \E caller \in Callers :
        /\ calls.frames[caller].pc = "done"
        /\ Step(caller, IdleFrame, calls.cursors)

---------------------------------------------------------------------------
(* ProductionLLMAgent (src/production_llm_system.py): get_recommendation   *)
(* and the retry loop of _call_claude_with_retries, one step per model     *)
(* invocation and per sleep.  A response is the body the model returns, or *)
(* the failure of the invocation.                                          *)

MaxRetries == 3

MovieTitles == { "Casablanca", "blade runner 2049", "the godfather", "Inception" }

CocktailCollection == { "martini", "old_fashioned", "negroni", "manhattan", "margarita" }

Responses ==
    { [ kind |-> "text", cocktail_name |-> "negroni" ],
      [ kind |-> "text", cocktail_name |-> "mojito" ],
      [ kind |-> "nondict", cocktail_name |-> "" ],
      [ kind |-> "empty", cocktail_name |-> "" ],
      [ kind |-> "throttled", cocktail_name |-> "" ] }

GetMovieContext(movie_title) ==
    IF movie_title = "Casablanca"
    THEN [ title |-> "Casablanca", year |-> {1942},
           genre |-> { "drama", "romance", "war" },
           mood |-> { "romantic", "nostalgic", "sophisticated" },
           setting |-> { "wwii", "morocco" } ]
    ELSE IF movie_title = "blade runner 2049"
    THEN [ title |-> "Blade Runner 2049", year |-> {2017},
           genre |-> { "sci-fi", "drama" },
           mood |-> { "dark", "contemplative", "atmospheric" },
           setting |-> { "dystopian", "future", "los angeles" } ]
    ELSE IF movie_title = "the godfather"
    THEN [ title |-> "The Godfather", year |-> {1972},
           genre |-> { "crime", "drama" },
           mood |-> { "intense", "dramatic", "sophisticated" },
           setting |-> { "1940s-50s", "new york" } ]
    ELSE [ title |-> movie_title, year |-> {},
           genre |-> { "unknown" }, mood |-> { "varied" },
           setting |-> { "various" } ]

FallbackCocktail(movie_context) ==
    IF "romance" \in movie_context.genre \/ "romantic" \in movie_context.mood
    THEN "manhattan"
    ELSE IF \/ "crime" \in movie_context.genre
            \/ "noir" \in movie_context.mood
            \/ "dark" \in movie_context.mood
    THEN "negroni"
    ELSE IF "action" \in movie_context.genre \/ "thriller" \in movie_context.genre
    THEN "old_fashioned"
    ELSE IF "comedy" \in movie_context.genre \/ "fun" \in movie_context.mood
    THEN "margarita"
    ELSE IF \E year \in movie_context.year : year < 1970
    THEN "martini"
    ELSE IF "future" \in movie_context.setting \/ "sci-fi" \in movie_context.genre
    THEN "martini"
    ELSE "manhattan"

GetIntelligentFallback(movie_context) ==
    [ success |-> TRUE, movie |-> movie_context.title,
      cocktail_name |-> FallbackCocktail(movie_context),
      confidence_score |-> 80, source |-> "Intelligent Fallback" ]

ValidateAndEnhanceResponse(response, movie_context) ==
    [ success |-> TRUE, movie |-> movie_context.title,
      cocktail_name |-> IF response.cocktail_name \in CocktailCollection
                        THEN response.cocktail_name ELSE "martini",
      confidence_score |-> 85, source |-> "AI" ]

WellFormed(response) == response.kind \in { "text", "nondict" }

LastAttemptLate(attempt, max_retries) == attempt = max_retries

LastAttempt(attempt, max_retries) == attempt = max_retries - 1

AgentIdle(bedrock_client) ==
    [ bedrock_client |-> bedrock_client, api_calls_made |-> 0,
      successful_calls |-> 0, pc |-> "idle", movie_title |-> "",
      attempt |-> 0, responses |-> <<>>, slept |-> 0, text |-> {},
      raised |-> {}, result |-> {} ]

AgentStep(next) ==
    /\ agent' = next
    /\ UNCHANGED <<cocktails, ingredients, last, database, loader, calls>>

AgentGetRecommendation ==
    /\ agent.pc = "idle"
    /\ agent.api_calls_made < MaxCalls
    /\ \E movie_title \in MovieTitles :
         LET started == [ agent EXCEPT
                            !.api_calls_made = @ + 1, !.movie_title = movie_title,
                            !.attempt = 0, !.responses = <<>>, !.slept = 0,
                            !.text = {}, !.raised = {}, !.result = {} ]
         IN  AgentStep(
                 IF agent.bedrock_client
                 THEN [ started EXCEPT !.pc = "invoke" ]
                 ELSE [ started EXCEPT
                          !.pc = "returned",
                          !.result = { GetIntelligentFallback(
                                           GetMovieContext(movie_title)) } ])

AgentInvoke ==
    /\ agent.pc = "invoke"
    /\ \E response \in Responses :
         LET movie_context == GetMovieContext(agent.movie_title)
             invoked == [ agent EXCEPT !.responses = Append(@, response) ]
             e == [ attempt |-> agent.attempt, kind |-> response.kind ]
         IN  AgentStep(
                 IF response.kind = "text"
                 THEN [ invoked EXCEPT
                          !.pc = "returned", !.text = { response },
                          !.successful_calls = @ + 1,
                          !.result = { ValidateAndEnhanceResponse(
                                           response, movie_context) } ]
                 ELSE IF response.kind = "nondict"
                 THEN [ invoked EXCEPT
                          !.pc = "returned", !.text = { response },
                          !.result = { GetIntelligentFallback(movie_context) } ]
                 ELSE IF LastAttempt(agent.attempt, MaxRetries)
                 THEN [ invoked EXCEPT
                          !.pc = "returned", !.raised = { e },
                          !.result = { GetIntelligentFallback(movie_context) } ]
                 ELSE [ invoked EXCEPT !.pc = "sleep" ])

AgentSleep ==
    /\ agent.pc = "sleep"
    /\ LET slept == [ agent EXCEPT !.slept = @ + 1, !.attempt = @ + 1 ]
       IN  AgentStep(
               IF agent.attempt + 1 < MaxRetries
               THEN [ slept EXCEPT !.pc = "invoke" ]
               ELSE [ slept EXCEPT
                        !.pc = "returned",
                        !.raised = { [ attempt |-> agent.attempt + 1,
                                       kind |-> "exhausted" ] },
                        !.result = { GetIntelligentFallback(
                                         GetMovieContext(agent.movie_title)) } ])

AgentTakeResult ==
    /\ agent.pc = "returned"
    /\ AgentStep([ agent EXCEPT !.pc = "idle" ])


---------------------------------------------------------------------------
(* Callers: the engine serves one call; the caller then takes the result *)

Healthy == { "none" }

Faults == { "none", "embed", "connect", "cursor", "execute1", "execute2", "close" }

Record(op, args, out) ==
    /\ last' = { [ op |-> op, args |-> args, out |-> out ] }
    /\ UNCHANGED <<cocktails, ingredients, database, loader, calls, agent>>

CallFindSimilar(faults) ==
    /\ last = {}
    /\ \E cocktail_name \in AnchorSet, max_results \in MaxResultsSet,
          similarity_threshold \in ThresholdSet, fault \in faults \ {"embed"} :
         \E first \in FirstRow(cocktails, cocktail_name) :
           Record("find_similar_cocktails_by_flavor",
                  [ cocktail_name |-> cocktail_name,
                    max_results |-> max_results,
                    similarity_threshold |-> similarity_threshold ],
                  FindSimilarCocktailsByFlavor(
                      cocktails, cocktail_name, max_results,
                      similarity_threshold, fault, first))

CallSearchByDescription(faults) ==
    /\ last = {}
    /\ \E flavor_description \in TextSet, max_results \in MaxResultsSet,
          similarity_threshold \in ThresholdSet, fault \in faults \ {"execute2"} :
           Record("search_cocktails_by_flavor_description",
                  [ flavor_description |-> flavor_description,
                    max_results |-> max_results,
                    similarity_threshold |-> similarity_threshold ],
                  SearchCocktailsByFlavorDescription(
                      cocktails, flavor_description, max_results,
                      similarity_threshold, fault))

CallIngredientSimilarity(faults) ==
    /\ last = {}
    /\ \E requested \in IngredientListSet, max_results \in MaxResultsSet,
          similarity_threshold \in OverlapThresholdSet,
          fault \in faults \ {"embed", "execute2"} :
           Record("find_cocktails_by_ingredient_similarity",
                  [ ingredients |-> requested,
                    max_results |-> max_results,
                    similarity_threshold |-> similarity_threshold ],
                  FindCocktailsByIngredientSimilarity(
                      cocktails, ingredients, requested, similarity_threshold,
                      max_results, fault))

CallIngredientRecommendations(faults) ==
    /\ last = {}
    /\ \E cocktail_name \in AnchorSet, max_results \in MaxResultsSet,
          fault \in faults \ {"embed"} :
         \E first \in FirstRow(cocktails, cocktail_name) :
           Record("get_ingredient_recommendations",
                  [ cocktail_name |-> cocktail_name, max_results |-> max_results ],
                  GetIngredientRecommendations(
                      cocktails, ingredients, cocktail_name, max_results, fault, first))

CallPreferences(faults) ==
    /\ last = {}
    /\ \E range \in AbvRangeSet, excluded \in ExcludedSet, required \in TagListSet,
          max_results \in MaxResultsSet, fault \in faults \ {"embed", "execute2"} :
           Record("find_cocktails_by_preferences",
                  [ preferred_strength_min |-> range[1],
                    preferred_strength_max |-> range[2],
                    excluded_categories |-> excluded,
                    required_tags |-> required,
                    max_results |-> max_results ],
                  FindCocktailsByPreferences(
                      cocktails, range[1], range[2], excluded, required,
                      max_results, fault))

CallCocktailDetails(faults) ==
    /\ last = {}
    /\ \E cocktail_id \in 1..(NumCocktails + 1),
          fault \in faults \ {"embed", "execute2"} :
           Record("get_cocktail_details",
                  [ cocktail_id |-> cocktail_id ],
                  GetCocktailDetails(cocktails, ingredients, cocktail_id, fault))

HttpSearchByPreferences ==
    /\ last = {}
    /\ \E range \in AbvRangeSet, excluded \in ExcludedSet, required \in TagListSet,
          max_results \in MaxResultsSet, fault \in Faults \ {"embed", "execute2"} :
           Record("GET /cocktails/search/preferences",
                  [ preferred_strength_min |-> range[1],
                    preferred_strength_max |-> range[2],
                    excluded_categories |-> excluded,
                    required_tags |-> required,
                    max_results |-> max_results ],
                  SearchByPreferences(
                      cocktails, range[1], range[2], excluded, required,
                      max_results, fault))

HttpFindSimilarCocktails ==
    /\ last = {}
    /\ \E search_api \in BOOLEAN, cocktail_name \in AnchorSet,
          max_results \in EntryMaxResultsSet, threshold \in ThresholdSet,
          fault \in Faults \ {"embed"} :
         \E first \in FirstRow(cocktails, cocktail_name) :
           Record("GET /cocktails/similar/{cocktail_name}",
                  [ search_api |-> search_api,
                    cocktail_name |-> cocktail_name,
                    max_results |-> max_results,
                    similarity_threshold |-> threshold ],
                  ApiFindSimilarCocktails(
                      search_api, cocktails, cocktail_name, max_results,
                      threshold, fault, first))

HttpSearchByFlavor ==
    /\ last = {}
    /\ \E search_api \in BOOLEAN, description \in TextSet,
          max_results \in EntryMaxResultsSet, threshold \in ThresholdSet,
          fault \in Faults \ {"execute2"} :
           Record("GET /cocktails/search/flavor",
                  [ search_api |-> search_api,
                    flavor_description |-> description,
                    max_results |-> max_results,
                    similarity_threshold |-> threshold ],
                  ApiSearchByFlavor(
                      search_api, cocktails, description, max_results,
                      threshold, fault))

HttpGetCocktailDetails ==
    /\ last = {}
    /\ \E search_api \in BOOLEAN, cocktail_id \in 1..(NumCocktails + 1),
          fault \in Faults \ {"embed", "execute2"} :
           Record("GET /cocktails/{cocktail_id}/details",
                  [ search_api |-> search_api, cocktail_id |-> cocktail_id ],
                  ApiGetCocktailDetails(
                      search_api, cocktails, ingredients, cocktail_id, fault))

CommandLine ==
    /\ last = {}
    /\ \E args \in CommandLines, fault \in { "none", "connect" } :
         \E first \in IF "cocktail" \in DOMAIN args
                       THEN FirstRow(cocktails, args.cocktail) ELSE {0} :
           Record("cocktail_search_cli", args,
                  Main(cocktails, ingredients, args, fault, first))

TakeResult ==
    /\ last # {}
    /\ last' = {}
    /\ UNCHANGED <<cocktails, ingredients, database, loader, calls, agent>>

---------------------------------------------------------------------------
(* The store the loader left behind *)

Cocktail(id, name, flavor) ==
    [ name |-> name, flavor |-> flavor, abv |-> AbvOf(id),
      tags |-> TagsOf(id), ingredients |-> IngredientsOf(id) ]

Ingredient(id) ==
    [ name |-> IngredientNameOf(id), flavor |-> IngredientFlavorOf(id),
      category |-> IF id % 2 = 1 THEN { "Spirit" } ELSE {},
      strength |-> IF id % 2 = 1 THEN { 40 } ELSE { 0 } ]

Quiet ==
    /\ database = EmptyDatabase
    /\ loader = LoaderIdle
    /\ calls = NoCalls
    /\ agent = AgentIdle(FALSE)

Init ==
    /\ \E names \in [CocktailIds -> NameSet], flavors \in [CocktailIds -> FlavorSet] :
         cocktails = [ i \in CocktailIds |-> Cocktail(i, names[i], flavors[i]) ]
    /\ ingredients = [ g \in IngredientIds |-> Ingredient(g) ]
    /\ last = {}
    /\ Quiet

InitFaults ==
    /\ \E names \in [CocktailIds -> NameSet] :
         cocktails = [ i \in CocktailIds |-> Cocktail(i, names[i], TypicalFlavor(i)) ]
    /\ ingredients = [ g \in IngredientIds |-> Ingredient(g) ]
    /\ last = {}
    /\ Quiet

InitPreferences ==
    /\ \E profiles \in [CocktailIds -> ProfileSet] :
         cocktails = [ i \in CocktailIds |->
                         [ Cocktail(i, <<"a">>, TypicalFlavor(i))
                             EXCEPT !.abv = profiles[i].abv,
                                    !.tags = profiles[i].tags ] ]
    /\ ingredients = [ g \in IngredientIds |-> Ingredient(g) ]
    /\ last = {}
    /\ Quiet

InitOverlap ==
    /\ \E lists \in [CocktailIds -> IngredientRefSet] :
         cocktails = [ i \in CocktailIds |->
                         [ Cocktail(i, IF i % 2 = 0 THEN <<"a", "b">> ELSE <<"a">>,
                                    TypicalFlavor(i))
                             EXCEPT !.ingredients = lists[i] ] ]
    /\ \E soda \in SodaNameSet :
         ingredients = [ g \in IngredientIds |->
                           IF g % 3 = 0 THEN [ Ingredient(g) EXCEPT !.name = soda ]
                           ELSE Ingredient(g) ]
    /\ last = {}
    /\ Quiet

(* The data directories the loader is started on.  A reference is an entry *)
(* of a cocktail's ingredient list before the edition fills in the rest.   *)

Ref(id, name) == [ _id |-> id, name |-> name ]

IngredientSlot(defect) ==
    [ name |-> { <<"g">> }, description |-> { <<"x">> },
      category |-> { <<"Spirit">> }, defect |-> defect ]

CocktailSlot(defect, refs) ==
    [ instructions |-> { <<"x">> }, description |-> { <<"x">> },
      tags |-> { << <<"tropical">> >> }, method |-> { <<"Shake">> },
      refs |-> refs, defect |-> defect ]

LoaderInit(ingredient_slots, cocktail_slots) ==
    /\ \E gs \in Listing(ingredient_slots), cs \in Listing(cocktail_slots) :
         loader = [ LoaderIdle EXCEPT
                      !.directory = [ ingredients |-> gs, cocktails |-> cs ] ]
    /\ database = EmptyDatabase
    /\ cocktails = CocktailsView(EmptyTables)
    /\ ingredients = IngredientsView(EmptyTables)
    /\ last = {}
    /\ calls = NoCalls
    /\ agent = AgentIdle(FALSE)

Defects == { "none", "json", "execute" }

InitLoader ==
    LoaderInit({ IngredientSlot(defect) : defect \in Defects },
               { CocktailSlot(defect, << Ref({1}, { <<"g">> }) >>) : defect \in Defects })

RefListSet ==
    { <<>>,
      << Ref({1}, { <<"g">> }) >>,
      << Ref({1}, { <<"g">> }), Ref({2}, { <<"l">> }) >>,
      << Ref({1}, { <<"g">> }), Ref({1}, { <<"g">> }) >>,
      << Ref({9}, { <<"s">> }) >> }

InitReload ==
    LoaderInit({ IngredientSlot("none") },
               { CocktailSlot("none", refs) : refs \in RefListSet })

IngredientTextSlots ==
    { IngredientSlot("none"),
      [ IngredientSlot("none") EXCEPT !.description = {}, !.category = {} ],
      [ IngredientSlot("none") EXCEPT !.description = { <<" ">> },
                                      !.category = { <<" ">> } ] }

CocktailTextSlots ==
    { CocktailSlot("none", << Ref({1}, { <<"g">> }) >>),
      [ CocktailSlot("none", <<>>) EXCEPT !.description = {}, !.tags = {} ],
      [ CocktailSlot("none", << Ref({1}, {}) >>) EXCEPT
          !.description = { <<" ">> }, !.tags = { << <<" ">> >> } ],
      [ CocktailSlot("none", << Ref({1}, { <<" ">> }) >>) EXCEPT
          !.description = { <<>> }, !.tags = { <<>> } ],
      [ CocktailSlot("none", << Ref({1}, { <<"g">> }) >>) EXCEPT
          !.tags = { << <<" ">>, <<" ">> >> } ] }

InitTexts == LoaderInit(IngredientTextSlots, CocktailTextSlots)

SubstringRefSet == { <<>>, <<3>>, <<1, 3>> }

InitSubstring ==
    /\ \E lists \in [CocktailIds -> SubstringRefSet] :
         cocktails = [ i \in CocktailIds |->
                         [ Cocktail(i, <<"a">>, TypicalFlavor(i))
                             EXCEPT !.ingredients = lists[i] ] ]
    /\ ingredients = [ g \in IngredientIds |->
                         IF g % 3 = 0 THEN [ Ingredient(g) EXCEPT !.name = <<"g", "l">> ]
                         ELSE Ingredient(g) ]
    /\ last = {}
    /\ Quiet

ServeSlots == { CocktailSlot("none", <<>>), CocktailSlot("embed", <<>>) }

InitServe ==
    /\ \E cs \in [ CocktailIds -> ServeSlots ] :
         loader = [ LoaderIdle EXCEPT
                      !.directory = [ ingredients |-> << IngredientSlot("none") >>,
                                      cocktails |-> cs ] ]
    /\ database = EmptyDatabase
    /\ cocktails = CocktailsView(EmptyTables)
    /\ ingredients = IngredientsView(EmptyTables)
    /\ last = {}
    /\ calls = NoCalls
    /\ agent = AgentIdle(FALSE)

InitAgent ==
    /\ \E bedrock_client \in BOOLEAN : agent = AgentIdle(bedrock_client)
    /\ database = EmptyDatabase
    /\ loader = LoaderIdle
    /\ cocktails = CocktailsView(EmptyTables)
    /\ ingredients = IngredientsView(EmptyTables)
    /\ last = {}
    /\ calls = NoCalls

Next ==
    \/ CallFindSimilar(Healthy)
    \/ CallSearchByDescription(Healthy)
    \/ CallIngredientSimilarity(Healthy)
    \/ CallIngredientRecommendations(Healthy)
    \/ CallPreferences(Healthy)
    \/ CallCocktailDetails(Healthy)
    \/ TakeResult

NextFaults ==
    \/ CallFindSimilar(Faults)
    \/ CallSearchByDescription(Faults)
    \/ CallIngredientSimilarity(Faults)
    \/ CallIngredientRecommendations(Faults)
    \/ CallPreferences(Faults)
    \/ CallCocktailDetails(Faults)
    \/ HttpSearchByPreferences
    \/ TakeResult

NextPreferences ==
    \/ CallPreferences(Healthy)
    \/ TakeResult

NextOverlap ==
    \/ CallIngredientSimilarity(Healthy)
    \/ CallIngredientRecommendations(Healthy)
    \/ TakeResult

NextEntry ==
    \/ HttpFindSimilarCocktails
    \/ HttpSearchByFlavor
    \/ HttpGetCocktailDetails
    \/ HttpSearchByPreferences
    \/ CommandLine
    \/ TakeResult

NextScan ==
    \/ CallFindSimilar(Healthy)
    \/ CallSearchByDescription(Healthy)
    \/ CallIngredientSimilarity(Healthy)
    \/ TakeResult

Load(editions) ==
    \/ LoaderStart(editions)
    \/ ProcessIngredient
    \/ IngredientsDone
    \/ ProcessCocktail
    \/ CocktailsDone

NextLoader == Load({ 1 })

NextReload == Load({ 1, 2 })

FindSimilar(callers) ==
    \/ CallBegin(callers, { 90 })
    \/ CallLookup
    \/ CallFetchOne
    \/ CallScan
    \/ CallFetchAll
    \/ CallReturn

NextServe ==
    \/ Load({ 1 })
    \/ FindSimilar({ 1 })

NextConcurrent == FindSimilar(Callers)

NextAgent ==
    \/ AgentGetRecommendation
    \/ AgentInvoke
    \/ AgentSleep
    \/ AgentTakeResult

NextDetails ==
    \/ Load({ 1 })
    \/ CallCocktailDetails(Healthy)
    \/ TakeResult

Spec == Init /\ [][Next]_vars

SpecFaults == InitFaults /\ [][NextFaults]_vars

SpecScan == Init /\ [][NextScan]_vars

SpecPreferences == InitPreferences /\ [][NextPreferences]_vars

SpecOverlap == InitOverlap /\ [][NextOverlap]_vars

SpecEntry == InitFaults /\ [][NextEntry]_vars

SpecSubstring == InitSubstring /\ [][NextOverlap]_vars

SpecLoader == InitLoader /\ [][NextLoader]_vars

SpecReload == InitReload /\ [][NextReload]_vars

SpecTexts == InitTexts /\ [][NextLoader]_vars

SpecDetails == InitReload /\ [][NextDetails]_vars

SpecServe == InitServe /\ [][NextServe]_vars

SpecConcurrent == InitFaults /\ [][NextConcurrent]_vars

SpecAgent == InitAgent /\ [][NextAgent]_vars

---------------------------------------------------------------------------
(* Claims *)

FIND_SIMILAR == "find_similar_cocktails_by_flavor"

FLAVOR_TEXT == "search_cocktails_by_flavor_description"

OVERLAP == "find_cocktails_by_ingredient_similarity"

RECOMMEND == "get_ingredient_recommendations"

PREFERENCES == "find_cocktails_by_preferences"

HTTP_PREFERENCES == "GET /cocktails/search/preferences"

QueryOps == { FIND_SIMILAR, FLAVOR_TEXT, OVERLAP, RECOMMEND, PREFERENCES }

StorageFaults == { "connect", "cursor", "execute1", "execute2", "close" }

Unlimited == NumCocktails + NumIngredients

(* C1: when the store is unreachable or a storage statement raises, a query *)
(* operation ends in a failure raised to its caller, never in a returned    *)
(* (empty) list.                                                            *)
C1_StorageFailureRaised ==
    \A c \in last :
        (c.op \in QueryOps /\ c.out.fired \in StorageFaults) => c.out.kind = "raise"

(* C2: when the embedder fails or yields no vector, the free-text search    *)
(* ends in a failure raised to its caller, never in a returned list.        *)
C2_EmbeddingFailureRaised ==
    \A c \in last :
        (c.op = FLAVOR_TEXT /\ c.out.fired = "embed") => c.out.kind = "raise"

(* C3: whatever the exit path, a connection a call opened is closed when    *)
(* the call has returned.                                                   *)
C3_ConnectionReleased ==
    \A c \in last : c.out.conn # "open"

(* C4: the preference search with abvMin > abvMax ends in a failure, at the *)
(* engine and at the HTTP endpoint; it never returns a result list.         *)
C4_InvertedRangeRejected ==
    \A c \in last :
        ( /\ c.op \in { PREFERENCES, HTTP_PREFERENCES }
          /\ c.args.preferred_strength_min > c.args.preferred_strength_max )
        => c.out.kind = "raise"

(* C5: on a fixed store an anchor query has one possible result: whichever  *)
(* matching row the storage scan yields first, the result is the same.      *)
C5_Deterministic ==
    \A c \in last :
        /\ c.op = FIND_SIMILAR =>
             \A first \in FirstRow(cocktails, c.args.cocktail_name) :
                 FindSimilarCocktailsByFlavor(
                     cocktails, c.args.cocktail_name, c.args.max_results,
                     c.args.similarity_threshold, "none", first).rows = c.out.rows
        /\ c.op = RECOMMEND =>
             \A first \in FirstRow(cocktails, c.args.cocktail_name) :
                 GetIngredientRecommendations(
                     cocktails, ingredients, c.args.cocktail_name,
                     c.args.max_results, "none", first).rows = c.out.rows

NoNameContains(cs, cocktail_name) ==
    \A i \in DOMAIN cs : ~ Contains(cs[i].name, cocktail_name)

(* C6: when no record name contains the anchor name (case-insensitively),   *)
(* the anchor queries run no similarity scan and hand the caller no entry.  *)
C6_MissingAnchorNoScan ==
    \A c \in last :
        ( /\ c.op \in { FIND_SIMILAR, RECOMMEND }
          /\ NoNameContains(cocktails, c.args.cocktail_name) )
        => /\ c.out.rows = <<>>
           /\ c.out.stmts = <<"lookup">>

(* C7: the anchor-based search returns neither the resolved anchor record   *)
(* nor any record named exactly the anchor name.                            *)
C7_SelfExclusion ==
    \A c \in last :
        c.op = FIND_SIMILAR =>
            \A k \in DOMAIN c.out.rows :
                /\ c.out.rows[k].cocktail_id \notin c.out.anchor
                /\ c.out.rows[k].cocktail_name # c.args.cocktail_name

QueryVector(c) ==
    IF c.op = FIND_SIMILAR
    THEN cocktails[CHOOSE a \in c.out.anchor : TRUE].flavor
    ELSE GetEmbedding(c.args.flavor_description, "none")

ScoredCandidates(c) ==
    { i \in DOMAIN FlavorScore(cocktails, QueryVector(c)) : i \notin c.out.anchor }

ReturnedIds(c) == { c.out.rows[k].cocktail_id : k \in DOMAIN c.out.rows }

(* C8: every entry the anchor-based and free-text searches return has a     *)
(* score >= the caller's minSimilarity, and a candidate left out either has *)
(* a score < minSimilarity or was cut by the result cap.                    *)
C8_ThresholdRespected ==
    \A c \in last :
        (c.op \in { FIND_SIMILAR, FLAVOR_TEXT } /\ c.out.stmts # <<>> /\ c.out.log = "none")
        => /\ \A k \in DOMAIN c.out.rows :
                 c.out.rows[k].similarity_score >= c.args.similarity_threshold
           /\ \A i \in ScoredCandidates(c) \ ReturnedIds(c) :
                 \/ FlavorScore(cocktails, QueryVector(c))[i] < c.args.similarity_threshold
                 \/ Len(c.out.rows) = c.args.max_results

C8_Witness ==
    \E c \in last :
        /\ c.op = FIND_SIMILAR
        /\ c.out.log = "none"
        /\ Len(c.out.rows) < c.args.max_results
        /\ \E k \in DOMAIN c.out.rows :
               c.out.rows[k].similarity_score = c.args.similarity_threshold
        /\ ScoredCandidates(c) \ ReturnedIds(c) # {}

IdOf(row) == IF "cocktail_id" \in DOMAIN row THEN row.cocktail_id ELSE row.ingredient_id

(* C9: the list a similarity query hands to its caller is ordered by score  *)
(* descending, equal scores by ascending record id.                         *)
C9_RankedOrder ==
    \A c \in last :
        c.op \in { FIND_SIMILAR, FLAVOR_TEXT, RECOMMEND } =>
            \A j, k \in DOMAIN c.out.rows :
                j < k =>
                  \/ c.out.rows[j].similarity_score > c.out.rows[k].similarity_score
                  \/ /\ c.out.rows[j].similarity_score = c.out.rows[k].similarity_score
                     /\ IdOf(c.out.rows[j]) < IdOf(c.out.rows[k])

C9_Witness ==
    \E c \in last :
        /\ c.op = FIND_SIMILAR
        /\ Len(c.out.rows) >= 2
        /\ c.out.rows[1].similarity_score = c.out.rows[2].similarity_score

FullList(c) ==
    IF c.op = FIND_SIMILAR
    THEN FindSimilarCocktailsByFlavor(
             cocktails, c.args.cocktail_name, Unlimited,
             c.args.similarity_threshold, "none",
             CHOOSE a \in c.out.anchor \cup {0} : c.out.anchor # {} => a # 0).rows
    ELSE IF c.op = FLAVOR_TEXT
    THEN SearchCocktailsByFlavorDescription(
             cocktails, c.args.flavor_description, Unlimited,
             c.args.similarity_threshold, "none").rows
    ELSE IF c.op = OVERLAP
    THEN FindCocktailsByIngredientSimilarity(
             cocktails, ingredients, c.args.ingredients,
             c.args.similarity_threshold, Unlimited, "none").rows
    ELSE IF c.op = RECOMMEND
    THEN GetIngredientRecommendations(
             cocktails, ingredients, c.args.cocktail_name, Unlimited, "none",
             CHOOSE a \in c.out.anchor \cup {0} : c.out.anchor # {} => a # 0).rows
    ELSE FindCocktailsByPreferences(
             cocktails, c.args.preferred_strength_min, c.args.preferred_strength_max,
             c.args.excluded_categories, c.args.required_tags, Unlimited, "none").rows

(* C10: a query returns at most maxResults entries, and they are the first  *)
(* maxResults entries of the full ranked list of qualifying candidates.     *)
C10_TruncatedPrefix ==
    \A c \in last :
        c.op \in QueryOps =>
            /\ Len(c.out.rows) <= c.args.max_results
            /\ c.out.rows = Take(FullList(c), c.args.max_results)

C10_Witness ==
    \E c \in last :
        /\ c.op = OVERLAP
        /\ Len(c.out.rows) = c.args.max_results
        /\ Len(FullList(c)) > c.args.max_results

ResolvedAnchor(c) == CHOOSE a \in c.out.anchor \cup {0} : c.out.anchor # {} => a # 0

RowsAt(c, threshold) ==
    IF c.op = FIND_SIMILAR
    THEN FindSimilarCocktailsByFlavor(
             cocktails, c.args.cocktail_name, c.args.max_results, threshold,
             "none", ResolvedAnchor(c)).rows
    ELSE IF c.op = FLAVOR_TEXT
    THEN SearchCocktailsByFlavorDescription(
             cocktails, c.args.flavor_description, c.args.max_results,
             threshold, "none").rows
    ELSE FindCocktailsByIngredientSimilarity(
             cocktails, ingredients, c.args.ingredients, threshold,
             c.args.max_results, "none").rows

(* C11: on the same store, with the same anchor record or query and the     *)
(* same maxResults, a higher minSimilarity (minMatchFraction for the        *)
(* ingredient-overlap search) gives no more results than the lower one, and *)
(* every entry of the higher-threshold result is in the lower-threshold one.*)
C11_ThresholdMonotone ==
    \A c \in last :
        c.op \in { FIND_SIMILAR, FLAVOR_TEXT, OVERLAP } =>
            \A higher \in ThresholdSet \cup OverlapThresholdSet :
                higher >= c.args.similarity_threshold =>
                    LET fewer == RowsAt(c, higher)
                    IN  /\ Len(fewer) <= Len(c.out.rows)
                        /\ Range(fewer) \subseteq Range(c.out.rows)

C11_Witness ==
    \E c \in last :
        /\ c.op \in { FIND_SIMILAR, OVERLAP }
        /\ \E higher \in ThresholdSet \cup OverlapThresholdSet :
               /\ higher > c.args.similarity_threshold
               /\ RowsAt(c, higher) # <<>>
               /\ Len(RowsAt(c, higher)) < Len(c.out.rows)

WithoutMissing(cs, anchor) ==
    [ i \in { j \in DOMAIN cs : cs[j].flavor # <<>> \/ j \in anchor } |-> cs[i] ]

RowsOn(c, cs) ==
    IF c.op = FIND_SIMILAR
    THEN FindSimilarCocktailsByFlavor(
             cs, c.args.cocktail_name, c.args.max_results,
             c.args.similarity_threshold, "none", ResolvedAnchor(c)).rows
    ELSE SearchCocktailsByFlavorDescription(
             cs, c.args.flavor_description, c.args.max_results,
             c.args.similarity_threshold, "none").rows

(* C12: a record without a flavor embedding is never in the result of the   *)
(* flavor similarity searches, at any threshold (so it is not scored zero), *)
(* and the query ends normally with exactly the result it has on the store  *)
(* without the embedding-less records.                                      *)
C12_MissingEmbeddingExcluded ==
    \A c \in last :
        ( /\ c.op \in { FIND_SIMILAR, FLAVOR_TEXT }
          /\ c.out.stmts \in { <<"lookup", "scan">>, <<"scan">> } )
        => /\ \A k \in DOMAIN c.out.rows :
                 cocktails[c.out.rows[k].cocktail_id].flavor # <<>>
           /\ c.out.kind = "return"
           /\ c.out.log = "none"
           /\ c.out.rows = RowsOn(c, WithoutMissing(cocktails, c.out.anchor))

C12_Witness ==
    \E c \in last :
        /\ c.op = FIND_SIMILAR
        /\ c.args.similarity_threshold = 0
        /\ c.out.rows # <<>>
        /\ Len(c.out.rows) < c.args.max_results
        /\ \E i \in DOMAIN cocktails :
               i \notin c.out.anchor /\ cocktails[i].flavor = <<>>

Admitted(rec, args) ==
    /\ \/ rec.abv = {}
       \/ \E v \in rec.abv : /\ args.preferred_strength_min <= v
                              /\ v <= args.preferred_strength_max
    /\ ~ \E t \in rec.tags, e \in Range(args.excluded_categories) :
            LowerTag(t) = LowerTag(e)
    /\ \A r \in Range(args.required_tags) :
            LowerTag(r) \in { LowerTag(t) : t \in rec.tags }

AdmittedIds(c) == { i \in DOMAIN cocktails : Admitted(cocktails[i], c.args) }

ValidRange(c) == c.args.preferred_strength_min <= c.args.preferred_strength_max

(* C13: for a valid ABV range the preference search returns only cocktails  *)
(* whose ABV is null or within [abvMin, abvMax], none of whose tags equals  *)
(* an excluded category and which carry every required tag (all compared    *)
(* case-insensitively), and it leaves such a cocktail out only when the     *)
(* result is full; a cocktail tagged only citrus is never returned for      *)
(* requiredTags = [citrus, smoky].                                          *)
C13_PreferenceFilter ==
    \A c \in last :
        (c.op = PREFERENCES /\ ValidRange(c))
        => /\ ReturnedIds(c) \subseteq AdmittedIds(c)
           /\ AdmittedIds(c) \ ReturnedIds(c) # {} =>
                  Len(c.out.rows) = c.args.max_results
           /\ c.args.required_tags = <<"citrus", "smoky">> =>
                  \A i \in ReturnedIds(c) : cocktails[i].tags # { "citrus" }

C13_Witness ==
    \E c \in last :
        /\ c.op = PREFERENCES
        /\ c.args.required_tags = <<"citrus", "smoky">>
        /\ c.args.excluded_categories = <<"Classic">>
        /\ c.out.rows # <<>>
        /\ Len(c.out.rows) < c.args.max_results
        /\ \E i \in DOMAIN cocktails \ ReturnedIds(c) :
               cocktails[i].tags = { "citrus" } /\ cocktails[i].abv = {}
        /\ \E i \in DOMAIN cocktails \ ReturnedIds(c) :
               "Classic" \in cocktails[i].tags

Margarita == [ abv |-> {20}, tags |-> { "tropical", "citrus" } ]

Daiquiri == [ abv |-> {22}, tags |-> { "tropical" } ]

Martini == [ abv |-> {30}, tags |-> { "classic" } ]

ProfileOf(rec) == [ abv |-> rec.abv, tags |-> rec.tags ]

Scenario(c) ==
    /\ Len(cocktails) = 3
    /\ ProfileOf(cocktails[1]) = Margarita
    /\ ProfileOf(cocktails[2]) = Daiquiri
    /\ ProfileOf(cocktails[3]) = Martini
    /\ c.args.preferred_strength_min = 15
    /\ c.args.preferred_strength_max = 25
    /\ c.args.excluded_categories = <<>>
    /\ c.args.required_tags = <<"tropical">>
    /\ c.args.max_results >= 2

(* C14: the preference search returns the qualifying cocktails in ascending *)
(* id order, cut to maxResults after the filter: the result is the          *)
(* maxResults lowest-id qualifying cocktails; on the store Margarita,       *)
(* Daiquiri, Martini with ABV 15..25 and requiredTags = [tropical] it is    *)
(* Margarita then Daiquiri.                                                 *)
C14_AscendingIdThenTruncate ==
    \A c \in last :
        (c.op = PREFERENCES /\ ValidRange(c))
        => /\ \A j, k \in DOMAIN c.out.rows :
                 j < k => c.out.rows[j].cocktail_id < c.out.rows[k].cocktail_id
           /\ ReturnedIds(c) \subseteq AdmittedIds(c)
           /\ \/ Len(c.out.rows) = c.args.max_results
              \/ ReturnedIds(c) = AdmittedIds(c)
           /\ \A i \in AdmittedIds(c) \ ReturnedIds(c) :
                 \A r \in ReturnedIds(c) : r < i
           /\ Scenario(c) =>
                 [ k \in DOMAIN c.out.rows |-> c.out.rows[k].cocktail_id ] = <<1, 2>>

C14_Witness ==
    \E c \in last :
        /\ c.op = PREFERENCES
        /\ ValidRange(c)
        /\ Len(c.out.rows) = c.args.max_results
        /\ 1 \notin AdmittedIds(c)
        /\ AdmittedIds(c) \ ReturnedIds(c) # {}

IngredientNamesOf(rec) ==
    { ingredients[rec.ingredients[k]].name :
        k \in { j \in DOMAIN rec.ingredients : rec.ingredients[j] \in DOMAIN ingredients } }

FoundNames(rec, requested) ==
    { LowerText(q) : q \in { r \in Range(requested) :
                               \E n \in IngredientNamesOf(rec) : Contains(n, r) } }

FractionOf(rec, requested) ==
    IF Len(rec.ingredients) = 0 THEN 0
    ELSE (100 * Cardinality(FoundNames(rec, requested))) \div Len(rec.ingredients)

GinLimeSoda(rec) ==
    /\ Len(rec.ingredients) = 3
    /\ \A k \in 1..3 : rec.ingredients[k] \in DOMAIN ingredients
    /\ [ k \in 1..3 |-> ingredients[rec.ingredients[k]].name ]
           = << <<"g">>, <<"l">>, <<"s">> >>

(* C15: every entry of the ingredient-overlap result carries matchedCount = *)
(* the number of distinct requested names found, as case-insensitive        *)
(* substrings, among the cocktail's ingredient names, totalCount = the      *)
(* cocktail's ingredient count and matchFraction = matchedCount/totalCount, *)
(* 0 when totalCount is 0; the query ends normally, and with threshold 0 a  *)
(* cocktail without ingredients is in the result unless the result is full; *)
(* ingredients [g, l, s] against the request [g, l] give 2, 3 and 66%.      *)
C15_FractionComputed ==
    \A c \in last :
        c.op = OVERLAP
        => /\ c.out.kind = "return"
           /\ c.out.log = "none"
           /\ \A k \in DOMAIN c.out.rows :
                 LET row == c.out.rows[k]
                     rec == cocktails[row.cocktail_id]
                 IN  /\ row.matching_ingredients =
                          Cardinality(FoundNames(rec, c.args.ingredients))
                     /\ row.total_ingredients = Len(rec.ingredients)
                     /\ row.match_percentage = FractionOf(rec, c.args.ingredients)
                     /\ (GinLimeSoda(rec) /\ c.args.ingredients = << <<"g">>, <<"l">> >>)
                        => /\ row.matching_ingredients = 2
                           /\ row.total_ingredients = 3
                           /\ row.match_percentage = 66
           /\ (c.args.similarity_threshold = 0 /\ Len(c.out.rows) < c.args.max_results)
              => ReturnedIds(c) = DOMAIN cocktails

C15_Witness ==
    \E c \in last :
        /\ c.op = OVERLAP
        /\ c.args.ingredients = << <<"g">>, <<"l">> >>
        /\ Len(c.out.rows) = 2
        /\ GinLimeSoda(cocktails[c.out.rows[1].cocktail_id])
        /\ c.out.rows[2].total_ingredients = 0
        /\ c.out.rows[2].match_percentage = 0

(* C16: the ingredient-overlap search returns only cocktails with           *)
(* matchFraction >= minMatchFraction, leaves such a cocktail out only when  *)
(* the result is full, and orders its result by matchFraction descending,   *)
(* then matchedCount descending, then ascending id.                         *)
C16_OverlapOrder ==
    \A c \in last :
        c.op = OVERLAP
        => /\ \A k \in DOMAIN c.out.rows :
                 FractionOf(cocktails[c.out.rows[k].cocktail_id], c.args.ingredients)
                     >= c.args.similarity_threshold
           /\ \A i \in DOMAIN cocktails \ ReturnedIds(c) :
                 \/ FractionOf(cocktails[i], c.args.ingredients)
                        < c.args.similarity_threshold
                 \/ Len(c.out.rows) = c.args.max_results
           /\ \A j, k \in DOMAIN c.out.rows :
                 j < k =>
                   LET a == c.out.rows[j]
                       b == c.out.rows[k]
                   IN  \/ a.match_percentage > b.match_percentage
                       \/ /\ a.match_percentage = b.match_percentage
                          /\ a.matching_ingredients > b.matching_ingredients
                       \/ /\ a.match_percentage = b.match_percentage
                          /\ a.matching_ingredients = b.matching_ingredients
                          /\ a.cocktail_id < b.cocktail_id

C16_Witness ==
    \E c \in last :
        /\ c.op = OVERLAP
        /\ c.args.similarity_threshold = 50
        /\ Len(c.out.rows) = 2
        /\ c.out.rows[1].match_percentage = c.out.rows[2].match_percentage
        /\ c.out.rows[1].matching_ingredients > c.out.rows[2].matching_ingredients
        /\ c.out.rows[1].cocktail_id > c.out.rows[2].cocktail_id
        /\ \E i \in DOMAIN cocktails \ ReturnedIds(c) :
               FractionOf(cocktails[i], c.args.ingredients) < 50

(* C17: the ingredient recommendation for an anchor that resolves returns   *)
(* no ingredient that is in the ingredient list of the resolved anchor      *)
(* cocktail.                                                                *)
C17_NoAnchorIngredient ==
    \A c \in last :
        (c.op = RECOMMEND /\ c.out.anchor # {})
        => \A k \in DOMAIN c.out.rows :
               c.out.rows[k].ingredient_id
                   \notin Range(cocktails[ResolvedAnchor(c)].ingredients)

C17_Witness ==
    \E c \in last :
        /\ c.op = RECOMMEND
        /\ c.out.anchor # {}
        /\ c.out.rows # <<>>
        /\ Len(c.out.rows) < c.args.max_results
        /\ \E g \in Range(cocktails[ResolvedAnchor(c)].ingredients) :
               g \in DOMAIN ingredients /\ ingredients[g].flavor # <<>>

HTTP_SIMILAR == "GET /cocktails/similar/{cocktail_name}"

HTTP_FLAVOR == "GET /cocktails/search/flavor"

HTTP_DETAILS == "GET /cocktails/{cocktail_id}/details"

CLI == "cocktail_search_cli"

HttpOps == { HTTP_SIMILAR, HTTP_FLAVOR, HTTP_DETAILS, HTTP_PREFERENCES }

EngineAvailable(c) == "search_api" \in DOMAIN c.args => c.args.search_api

BelowOne(c) == "max_results" \in DOMAIN c.args /\ c.args.max_results < 1

(* C18: an HTTP request whose anchor or cocktail does not exist is answered *)
(* 404, one with maxResults < 1 or an inverted ABV range is answered with a *)
(* client error (400, 422), and one during which the embedder or the store  *)
(* fails is answered 503; none of them is answered 200 or 500.              *)
C18_HttpErrorMapping ==
    \A c \in last :
        (c.op \in HttpOps /\ EngineAvailable(c))
        => /\ ( /\ c.op = HTTP_SIMILAR
                /\ ~ BelowOne(c)
                /\ c.out.fired = "none"
                /\ MatchingIds(cocktails, c.args.cocktail_name) = {} )
              => c.out.status = 404
           /\ ( /\ c.op = HTTP_DETAILS
                /\ c.out.fired = "none"
                /\ c.args.cocktail_id \notin DOMAIN cocktails )
              => c.out.status = 404
           /\ ( \/ BelowOne(c)
                \/ /\ c.op = HTTP_PREFERENCES
                   /\ c.args.preferred_strength_min > c.args.preferred_strength_max )
              => c.out.status \in { 400, 422 }
           /\ c.out.fired \in StorageFaults \cup { "embed" }
              => c.out.status = 503

Rejected(c) ==
    /\ c.out.stmts = <<>>
    /\ \/ c.out.kind = "raise"
       \/ "printed" \in DOMAIN c.out /\ c.out.printed = "error"

(* C19: a request with maxResults < 1, over HTTP or from the command line,  *)
(* ends in a rejection and runs no storage statement.                       *)
C19_MaxResultsValidated ==
    \A c \in last :
        (c.op \in HttpOps \cup { CLI } /\ BelowOne(c)) => Rejected(c)


---------------------------------------------------------------------------
(* Claims about the loader *)

RunEnded == loader.pc = "idle" /\ loader.run >= 1

Stored(table, k) == \E id \in DOMAIN table : table[id]._id = { k }

(* C27: in the loader's main loop, when processing one ingredient or        *)
(* cocktail file raises (unreadable JSON, a failing INSERT), only that      *)
(* record is skipped: at the end of the run every file that does not raise  *)
(* by itself has its record in the committed store.                         *)
C27_OnlyBadRecordSkipped ==
    RunEnded =>
        /\ \A k \in DOMAIN loader.directory.ingredients :
              loader.directory.ingredients[k].defect = "none"
                  => Stored(database.committed.ingredients, k)
        /\ \A k \in DOMAIN loader.directory.cocktails :
              loader.directory.cocktails[k].defect = "none"
                  => Stored(database.committed.cocktails, k)

SameRecordsAgain == RunEnded /\ loader.run >= 2 /\ loader.previous = loader.edition

OneRowPerIdentity(table) ==
    \A a \in DOMAIN table, b \in DOMAIN table : table[a]._id = table[b]._id => a = b

WithoutTimestamp(table) ==
    [ id \in DOMAIN table |->
        [ col \in DOMAIN table[id] \ { "updated_at_db" } |-> table[id][col] ] ]

(* C23 as stated: loading the same ingredient and cocktail records twice    *)
(* leaves the cocktail rows, ingredient rows and link rows in the same      *)
(* state as loading them once, with exactly one row per record identity.    *)
C23_SameStateAfterReload ==
    SameRecordsAgain =>
        /\ database.committed = loader.before
        /\ OneRowPerIdentity(database.committed.cocktails)
        /\ OneRowPerIdentity(database.committed.ingredients)

(* C23 amended: loading the same records twice leaves every row as loading  *)
(* them once did, except for its updated_at_db timestamp, which is that of  *)
(* the latest load; there is exactly one row per record identity.           *)
C23_IdempotentUpToTimestamp ==
    /\ OneRowPerIdentity(database.committed.cocktails)
    /\ OneRowPerIdentity(database.committed.ingredients)
    /\ SameRecordsAgain =>
          /\ WithoutTimestamp(database.committed.cocktails)
                = WithoutTimestamp(loader.before.cocktails)
          /\ WithoutTimestamp(database.committed.ingredients)
                = WithoutTimestamp(loader.before.ingredients)
          /\ database.committed.cocktail_ingredients
                = loader.before.cocktail_ingredients

C23_Witness ==
    /\ SameRecordsAgain
    /\ Len(loader.directory.cocktails) = MaxFiles
    /\ Len(loader.directory.ingredients) = MaxFiles
    /\ database.committed.cocktail_ingredients # {}
    /\ \E id \in DOMAIN database.committed.cocktails :
          database.committed.cocktails[id].updated_at_db
              > loader.before.cocktails[id].updated_at_db

ReplacedColumns ==
    { "name", "instructions", "description", "description_embedding",
      "flavor_embedding", "method_embedding", "ingredient_summary_embedding",
      "tags_embedding" }

KeptColumns == { "abv", "tags", "glass", "method", "garnish", "utensils", "source" }

ChangesOnly(columns) ==
    \A id \in DOMAIN database.committed.cocktails :
        \A col \in DOMAIN database.committed.cocktails[id] \ columns :
            database.committed'.cocktails[id][col]
                = database.committed.cocktails[id][col]

(* C28 as stated: when the loader upserts a cocktail whose _id already      *)
(* exists, only name, instructions, description and the five embedding      *)
(* fields are replaced; every other column of the row keeps its value.      *)
C28_OnlyListedColumnsReplaced == [][ChangesOnly(ReplacedColumns)]_vars

(* C28 amended: an upsert of an existing cocktail replaces only name,       *)
(* instructions, description, the five embedding fields and updated_at_db;  *)
(* abv, tags, glass, method, garnish, utensils and source (and _id) keep    *)
(* the values of the first load of that identity.                           *)
C28_KeptColumnsOfFirstLoad ==
    [][/\ ChangesOnly(ReplacedColumns \cup { "updated_at_db" })
       /\ \A id \in DOMAIN database.committed.cocktails :
             \A col \in KeptColumns :
                 database.committed'.cocktails[id][col]
                     = database.committed.cocktails[id][col]]_vars

C28_Witness ==
    /\ RunEnded
    /\ \E id \in DOMAIN database.committed.cocktails :
          LET row == database.committed.cocktails[id]
              k == CHOOSE k \in row._id : TRUE
              first == CocktailFile(k, loader.directory.cocktails[k], 1)
              latest == CocktailFile(k, loader.directory.cocktails[k], 2)
          IN  /\ row.name = latest.name
              /\ row.instructions = latest.instructions
              /\ row.abv = first.abv /\ row.abv # latest.abv
              /\ row.tags = first.tags
              /\ row.source = first.source /\ row.source # latest.source

LinksOf(tables, id) == { l \in tables.cocktail_ingredients : l.cocktail_id = id }

(* C29: the loader never deletes or modifies an existing cocktail-          *)
(* ingredient link: across every step of every load the links of a         *)
(* cocktail only grow, and a link that is loaded again keeps its amount,    *)
(* units, optional flag and note.                                           *)
C29_LinksOnlyGrow ==
    [][\A id \in DOMAIN database.committed.cocktails :
          LinksOf(database.committed, id) \subseteq LinksOf(database.committed', id)]_vars

C29_Witness ==
    /\ RunEnded
    /\ loader.edition = 2
    /\ \E l \in database.committed.cocktail_ingredients :
          LET k == CHOOSE k \in database.committed.cocktails[l.cocktail_id]._id : TRUE
              again == CocktailFile(k, loader.directory.cocktails[k], 2).ingredients
          IN  /\ l.amount = { 30 }
              /\ \E j \in DOMAIN again :
                    /\ NumberOf(again[j].sort) = l.sort_order
                    /\ again[j]._id = database.committed.ingredients[l.ingredient_id]._id
                    /\ again[j].amount # l.amount

NoText(v) == \A text \in v : Blank(text)

NoTextInList(v) == \A list \in v : \A k \in DOMAIN list : Blank(list[k])

SourceOf(row) ==
    LET k == CHOOSE k \in row._id : TRUE
    IN  CocktailFile(k, loader.directory.cocktails[k], 1)

(* C25: when a record has no source text for an embedding field (empty,     *)
(* whitespace-only or missing description, tags, ingredient names,          *)
(* category), the loader stores that embedding field as absent, never as a  *)
(* zero vector or an embedding of some other text.                          *)
C25_NoTextNoEmbedding ==
    /\ \A id \in DOMAIN database.committed.ingredients :
          LET row == database.committed.ingredients[id]
          IN  /\ NoText(row.description) => row.description_embedding = <<>>
              /\ NoText(row.category) => row.category_embedding = <<>>
    /\ \A id \in DOMAIN database.committed.cocktails :
          LET row == database.committed.cocktails[id]
              entries == SourceOf(row).ingredients
          IN  /\ NoText(row.description) => row.description_embedding = <<>>
              /\ NoTextInList(row.tags) => row.tags_embedding = <<>>
              /\ (\A k \in DOMAIN entries : NoText(entries[k].name))
                    => row.ingredient_summary_embedding = <<>>

(* C26: every entry returned by the ingredient-overlap search satisfies     *)
(* matching_ingredients <= total_ingredients and 0 <= match_percentage <= 1 *)
(* (100 percent), for any requested name list and any store.                *)
C26_FractionWithinUnit ==
    \A c \in last :
        (c.op = OVERLAP /\ c.out.kind = "return")
        => \A k \in DOMAIN c.out.rows :
             /\ c.out.rows[k].matching_ingredients <= c.out.rows[k].total_ingredients
             /\ 0 <= c.out.rows[k].match_percentage
             /\ c.out.rows[k].match_percentage <= 100

DETAILS == "get_cocktail_details"

Resolvable(tables, entry) ==
    \E g \in DOMAIN tables.ingredients : tables.ingredients[g]._id = entry._id

LinkedAs(tables, id, entry) ==
    \E l \in LinksOf(tables, id) :
        /\ l.ingredient_id \in DOMAIN tables.ingredients
        /\ tables.ingredients[l.ingredient_id]._id = entry._id
        /\ l.sort_order = NumberOf(entry.sort)

LoadedWithResolvableLinks(tables) ==
    \A k \in DOMAIN loader.directory.cocktails :
        \E id \in DOMAIN tables.cocktails :
            LET entries == CocktailFile(k, loader.directory.cocktails[k], 1).ingredients
            IN  /\ tables.cocktails[id]._id = { k }
                /\ \A j \in DOMAIN entries :
                      Resolvable(tables, entries[j]) <=> LinkedAs(tables, id, entries[j])

ServedWhole(c, cs) ==
    (c.op = DETAILS /\ c.args.cocktail_id \in DOMAIN cs)
    => /\ c.out.kind = "return"
       /\ c.out.log = "none"
       /\ Len(c.out.rows) = 1
       /\ c.out.rows[1].id = c.args.cocktail_id
       /\ c.out.rows[1].name = cs[c.args.cocktail_id].name
       /\ Len(c.out.rows[1].ingredients) >= Len(cs[c.args.cocktail_id].ingredients)

(* C24: a cocktail whose ingredient list references an ingredient id that   *)
(* is not in the ingredient set is still loaded and still served: at the    *)
(* end of a run every cocktail file has its row, with a link for exactly    *)
(* the entries whose ingredient is stored; and get_cocktail_details of a    *)
(* stored cocktail returns that cocktail, whatever ingredient rows it has.  *)
C24_UnknownIngredientTolerated ==
    [][/\ RunEnded' => LoadedWithResolvableLinks(database.committed')
       /\ (last = {} /\ last' # {}) => \A c \in last' : ServedWhole(c, cocktails)]_vars

C24_Witness ==
    /\ RunEnded
    /\ \E c \in last :
          /\ c.op = DETAILS
          /\ c.args.cocktail_id \in DOMAIN database.committed.cocktails
          /\ LET row == database.committed.cocktails[c.args.cocktail_id]
                 k == CHOOSE k \in row._id : TRUE
             IN  /\ loader.directory.cocktails[k].refs = << Ref({9}, { <<"s">> }) >>
                 /\ LinksOf(database.committed, c.args.cocktail_id) = {}
          /\ Len(c.out.rows) = 1
          /\ c.out.rows[1].ingredients = << [ name |-> {} ] >>

---------------------------------------------------------------------------
(* Claims about concurrent calls *)

Scanned(frame) == frame.pc = "done" /\ frame.seen # <<>>

QualifyingIn(frame) ==
    LET anchor == CHOOSE id \in frame.cocktail_id : TRUE
    IN  { i \in DOMAIN frame.seen \ { anchor } :
            /\ frame.seen[i].flavor # <<>>
            /\ frame.seen[anchor].flavor # <<>>
            /\ Similarity(frame.seen[anchor].flavor, frame.seen[i].flavor)
                  >= frame.args.similarity_threshold }

FrameIds(frame) == { frame.out.rows[k].cocktail_id : k \in DOMAIN frame.out.rows }

(* C22: when the loader runs concurrently with a query and the query sees   *)
(* a record whose embedding fields or nullable columns are absent, the      *)
(* query does not fail and does not discard its result: the record without  *)
(* embedding is not a candidate, and the other qualifying records are       *)
(* returned, up to the requested maximum.                                   *)
C22_PartialRecordTolerated ==
    \A caller \in Callers :
        LET frame == calls.frames[caller]
        IN  /\ frame.pc = "done" => frame.out.kind = "return" /\ frame.out.log # "error"
            /\ Scanned(frame)
                => /\ FrameIds(frame) \subseteq QualifyingIn(frame)
                   /\ Cardinality(FrameIds(frame)) = Len(frame.out.rows)
                   /\ \/ Len(frame.out.rows) = frame.args.max_results
                      \/ FrameIds(frame) = QualifyingIn(frame)

C22_Witness ==
    \E caller \in Callers :
        LET frame == calls.frames[caller]
        IN  /\ Scanned(frame)
            /\ frame.store # frame.seen
            /\ \E i \in DOMAIN frame.seen : frame.seen[i].flavor = <<>>
            /\ \E k \in DOMAIN frame.out.rows :
                  frame.seen[frame.out.rows[k].cocktail_id].abv = {}

(* C21: the engine is read-only and holds no shared mutable state: no step  *)
(* of a query changes a stored record, and on a fixed store every call of   *)
(* any interleaving of concurrent calls ends with a result the same call    *)
(* yields when run alone.                                                   *)
C21_ConcurrentAsAlone ==
    \A caller \in Callers :
        LET frame == calls.frames[caller]
        IN  /\ frame.pc # "idle" => frame.store = cocktails
            /\ frame.pc = "done"
                => frame.out \in
                     { FindSimilarCocktailsByFlavor(
                           cocktails, frame.args.cocktail_name, frame.args.max_results,
                           frame.args.similarity_threshold, "none", first) :
                         first \in FirstRow(cocktails, frame.args.cocktail_name) }

C21_Witness ==
    /\ calls.frames[1].pc = "done"
    /\ calls.frames[2].pc = "scanned"
    /\ calls.frames[1].args # calls.frames[2].args
    /\ calls.frames[1].out.rows # <<>>
    /\ calls.cursors[1] # calls.cursors[2]

---------------------------------------------------------------------------
(* Claims about the agent *)

CallEnded == agent.pc = "returned" /\ agent.bedrock_client

(* C30: _call_claude_with_retries invokes the model at most max_retries     *)
(* times, returns the text of the first well-formed response without        *)
(* further attempts, and after the last failed attempt re-raises that       *)
(* attempt's error without sleeping again; when it raises,                  *)
(* get_recommendation still returns a successful rule-based fallback        *)
(* result, and successful_calls <= api_calls_made after any sequence of     *)
(* calls.                                                                   *)
C30_RetriesThenFallback ==
    LET n == Len(agent.responses)
    IN  /\ n <= MaxRetries
        /\ agent.slept <= MaxRetries - 1
        /\ agent.successful_calls <= agent.api_calls_made
        /\ \A k \in 1..(n - 1) : ~WellFormed(agent.responses[k])
        /\ CallEnded
            => /\ agent.text # {}
                  => /\ WellFormed(agent.responses[n])
                     /\ agent.text = { agent.responses[n] }
                     /\ agent.raised = {}
                     /\ agent.slept = n - 1
               /\ agent.text = {}
                  => /\ n = MaxRetries
                     /\ agent.raised = { [ attempt |-> MaxRetries - 1,
                                            kind |-> agent.responses[n].kind ] }
                     /\ agent.slept = MaxRetries - 1
                     /\ \A r \in agent.result :
                           /\ r.success
                           /\ r.source = "Intelligent Fallback"
                           /\ r.cocktail_name \in CocktailCollection
               /\ Cardinality(agent.result) = 1

C30_Witness ==
    /\ CallEnded
    /\ agent.raised # {}
    /\ agent.api_calls_made = MaxCalls
    /\ agent.successful_calls = MaxCalls - 1
    /\ agent.responses[1].kind # agent.responses[MaxRetries].kind

====
